---- MODULE Spec2Model ----
(***************************************************************************)
(* EBYU thesis format validator (taskpane.js): the paragraph               *)
(* classification engine and the scan loop that drives it.                 *)
(*                                                                         *)
(* Strings are sequences of UTF-16 code units, as in JavaScript: "GİRİŞ"   *)
(* is <<71, 304, 82, 304, 350>>.  JavaScript values that may be absent are *)
(* records tagged with their typeof: [t |-> "undefined"], [t |-> "null"],  *)
(* [t |-> "number", n |-> 36], [t |-> "boolean", b |-> TRUE].              *)
(***************************************************************************)
EXTENDS Integers, Sequences, FiniteSets, TLC

(***************************************************************************)
(* JavaScript values                                                       *)
(***************************************************************************)
Undefined == [t |-> "undefined"]
Null == [t |-> "null"]
Num(n) == [t |-> "number", n |-> n]
Bool(b) == [t |-> "boolean", b |-> b]

\* ToBoolean of a value that is undefined, null, a number, a boolean or a
\* string
Truthy(v) ==
    CASE v.t = "number" -> v.n # 0
      [] v.t = "boolean" -> v.b
      [] v.t = "string" -> v.s # <<>>
      [] OTHER -> FALSE

(***************************************************************************)
(* String.prototype.trim, toUpperCase, toLowerCase, includes, startsWith   *)
(***************************************************************************)
\* WhiteSpace and LineTerminator code units (what trim strips, what \s matches)
WhiteSpace == {9, 10, 11, 12, 13, 32, 160, 5760, 8232, 8233, 8239, 8287, 12288, 65279}
                 \cup (8192..8202)

RECURSIVE TrimStart(_)
TrimStart(s) ==
    IF s # <<>> /\ Head(s) \in WhiteSpace THEN TrimStart(Tail(s)) ELSE s

RECURSIVE TrimEnd(_)
TrimEnd(s) ==
    IF s # <<>> /\ s[Len(s)] \in WhiteSpace THEN TrimEnd(SubSeq(s, 1, Len(s) - 1)) ELSE s

Trim(s) == TrimEnd(TrimStart(s))

\* Upper-case mappings to one code point, from U+0180 on: <<first, last, step,
\* offset>> maps first, first + step, ..., last to themselves plus offset;
\* the runs are in ascending order and do not overlap
UpperRanges ==
    <<<<384, 384, 1, 195>>, <<387, 389, 2, -1>>, <<392, 392, 1, -1>>, <<396, 396, 1, -1>>,
      <<402, 402, 1, -1>>, <<405, 405, 1, 97>>, <<409, 409, 1, -1>>, <<410, 410, 1, 163>>,
      <<411, 411, 1, 42561>>, <<414, 414, 1, 130>>, <<417, 421, 2, -1>>, <<424, 424, 1, -1>>,
      <<429, 429, 1, -1>>, <<432, 432, 1, -1>>, <<436, 438, 2, -1>>, <<441, 441, 1, -1>>,
      <<445, 445, 1, -1>>, <<447, 447, 1, 56>>, <<453, 453, 1, -1>>, <<454, 454, 1, -2>>,
      <<456, 456, 1, -1>>, <<457, 457, 1, -2>>, <<459, 459, 1, -1>>, <<460, 460, 1, -2>>,
      <<462, 476, 2, -1>>, <<477, 477, 1, -79>>, <<479, 495, 2, -1>>, <<498, 498, 1, -1>>,
      <<499, 499, 1, -2>>, <<501, 501, 1, -1>>, <<505, 543, 2, -1>>, <<547, 563, 2, -1>>,
      <<572, 572, 1, -1>>, <<575, 576, 1, 10815>>, <<578, 578, 1, -1>>, <<583, 591, 2, -1>>,
      <<592, 592, 1, 10783>>, <<593, 593, 1, 10780>>, <<594, 594, 1, 10782>>, <<595, 595, 1, -210>>,
      <<596, 596, 1, -206>>, <<598, 599, 1, -205>>, <<601, 601, 1, -202>>, <<603, 603, 1, -203>>,
      <<604, 604, 1, 42319>>, <<608, 608, 1, -205>>, <<609, 609, 1, 42315>>, <<611, 611, 1, -207>>,
      <<612, 612, 1, 42343>>, <<613, 613, 1, 42280>>, <<614, 614, 1, 42308>>, <<616, 616, 1, -209>>,
      <<617, 617, 1, -211>>, <<618, 618, 1, 42308>>, <<619, 619, 1, 10743>>, <<620, 620, 1, 42305>>,
      <<623, 623, 1, -211>>, <<625, 625, 1, 10749>>, <<626, 626, 1, -213>>, <<629, 629, 1, -214>>,
      <<637, 637, 1, 10727>>, <<640, 640, 1, -218>>, <<642, 642, 1, 42307>>, <<643, 643, 1, -218>>,
      <<647, 647, 1, 42282>>, <<648, 648, 1, -218>>, <<649, 649, 1, -69>>, <<650, 651, 1, -217>>,
      <<652, 652, 1, -71>>, <<658, 658, 1, -219>>, <<669, 669, 1, 42261>>, <<670, 670, 1, 42258>>,
      <<837, 837, 1, 84>>, <<881, 883, 2, -1>>, <<887, 887, 1, -1>>, <<891, 893, 1, 130>>,
      <<940, 940, 1, -38>>, <<941, 943, 1, -37>>, <<945, 961, 1, -32>>, <<962, 962, 1, -31>>,
      <<963, 971, 1, -32>>, <<972, 972, 1, -64>>, <<973, 974, 1, -63>>, <<976, 976, 1, -62>>,
      <<977, 977, 1, -57>>, <<981, 981, 1, -47>>, <<982, 982, 1, -54>>, <<983, 983, 1, -8>>,
      <<985, 1007, 2, -1>>, <<1008, 1008, 1, -86>>, <<1009, 1009, 1, -80>>, <<1010, 1010, 1, 7>>,
      <<1011, 1011, 1, -116>>, <<1013, 1013, 1, -96>>, <<1016, 1016, 1, -1>>, <<1019, 1019, 1, -1>>,
      <<1072, 1103, 1, -32>>, <<1104, 1119, 1, -80>>, <<1121, 1153, 2, -1>>, <<1163, 1215, 2, -1>>,
      <<1218, 1230, 2, -1>>, <<1231, 1231, 1, -15>>, <<1233, 1327, 2, -1>>, <<1377, 1414, 1, -48>>,
      <<4304, 4346, 1, 3008>>, <<4349, 4351, 1, 3008>>, <<5112, 5117, 1, -8>>, <<7296, 7296, 1, -6254>>,
      <<7297, 7297, 1, -6253>>, <<7298, 7298, 1, -6244>>, <<7299, 7300, 1, -6242>>, <<7301, 7301, 1, -6243>>,
      <<7302, 7302, 1, -6236>>, <<7303, 7303, 1, -6181>>, <<7304, 7304, 1, 35266>>, <<7306, 7306, 1, -1>>,
      <<7545, 7545, 1, 35332>>, <<7549, 7549, 1, 3814>>, <<7566, 7566, 1, 35384>>, <<7681, 7829, 2, -1>>,
      <<7835, 7835, 1, -59>>, <<7841, 7935, 2, -1>>, <<7936, 7943, 1, 8>>, <<7952, 7957, 1, 8>>,
      <<7968, 7975, 1, 8>>, <<7984, 7991, 1, 8>>, <<8000, 8005, 1, 8>>, <<8017, 8023, 2, 8>>,
      <<8032, 8039, 1, 8>>, <<8048, 8049, 1, 74>>, <<8050, 8053, 1, 86>>, <<8054, 8055, 1, 100>>,
      <<8056, 8057, 1, 128>>, <<8058, 8059, 1, 112>>, <<8060, 8061, 1, 126>>, <<8112, 8113, 1, 8>>,
      <<8126, 8126, 1, -7205>>, <<8144, 8145, 1, 8>>, <<8160, 8161, 1, 8>>, <<8165, 8165, 1, 7>>,
      <<8526, 8526, 1, -28>>, <<8560, 8575, 1, -16>>, <<8580, 8580, 1, -1>>, <<9424, 9449, 1, -26>>,
      <<11312, 11359, 1, -48>>, <<11361, 11361, 1, -1>>, <<11365, 11365, 1, -10795>>, <<11366, 11366, 1, -10792>>,
      <<11368, 11372, 2, -1>>, <<11379, 11379, 1, -1>>, <<11382, 11382, 1, -1>>, <<11393, 11491, 2, -1>>,
      <<11500, 11502, 2, -1>>, <<11507, 11507, 1, -1>>, <<11520, 11557, 1, -7264>>, <<11559, 11559, 1, -7264>>,
      <<11565, 11565, 1, -7264>>, <<42561, 42605, 2, -1>>, <<42625, 42651, 2, -1>>, <<42787, 42799, 2, -1>>,
      <<42803, 42863, 2, -1>>, <<42874, 42876, 2, -1>>, <<42879, 42887, 2, -1>>, <<42892, 42892, 1, -1>>,
      <<42897, 42899, 2, -1>>, <<42900, 42900, 1, 48>>, <<42903, 42921, 2, -1>>, <<42933, 42947, 2, -1>>,
      <<42952, 42954, 2, -1>>, <<42957, 42971, 2, -1>>, <<42998, 42998, 1, -1>>, <<43859, 43859, 1, -928>>,
      <<43888, 43967, 1, -38864>>, <<65345, 65370, 1, -32>>, <<66600, 66639, 1, -40>>, <<66776, 66811, 1, -40>>,
      <<66967, 66977, 1, -39>>, <<66979, 66993, 1, -39>>, <<66995, 67001, 1, -39>>, <<67003, 67004, 1, -39>>,
      <<68800, 68850, 1, -64>>, <<68976, 68997, 1, -32>>, <<71872, 71903, 1, -32>>, <<93792, 93823, 1, -32>>,
      <<93883, 93907, 1, -27>>, <<125218, 125251, 1, -34>>>>

\* Upper-case mappings to two or three code points, from U+0180 on
UpperSpecial ==
    (496 :> <<74, 780>>) @@ (912 :> <<921, 776, 769>>) @@ (944 :> <<933, 776, 769>>)
      @@ (1415 :> <<1333, 1362>>) @@ (7830 :> <<72, 817>>) @@ (7831 :> <<84, 776>>)
      @@ (7832 :> <<87, 778>>) @@ (7833 :> <<89, 778>>) @@ (7834 :> <<65, 702>>)
      @@ (8016 :> <<933, 787>>) @@ (8018 :> <<933, 787, 768>>)
      @@ (8020 :> <<933, 787, 769>>) @@ (8022 :> <<933, 787, 834>>)
      @@ (8064 :> <<7944, 921>>) @@ (8065 :> <<7945, 921>>) @@ (8066 :> <<7946, 921>>)
      @@ (8067 :> <<7947, 921>>) @@ (8068 :> <<7948, 921>>) @@ (8069 :> <<7949, 921>>)
      @@ (8070 :> <<7950, 921>>) @@ (8071 :> <<7951, 921>>) @@ (8072 :> <<7944, 921>>)
      @@ (8073 :> <<7945, 921>>) @@ (8074 :> <<7946, 921>>) @@ (8075 :> <<7947, 921>>)
      @@ (8076 :> <<7948, 921>>) @@ (8077 :> <<7949, 921>>) @@ (8078 :> <<7950, 921>>)
      @@ (8079 :> <<7951, 921>>) @@ (8080 :> <<7976, 921>>) @@ (8081 :> <<7977, 921>>)
      @@ (8082 :> <<7978, 921>>) @@ (8083 :> <<7979, 921>>) @@ (8084 :> <<7980, 921>>)
      @@ (8085 :> <<7981, 921>>) @@ (8086 :> <<7982, 921>>) @@ (8087 :> <<7983, 921>>)
      @@ (8088 :> <<7976, 921>>) @@ (8089 :> <<7977, 921>>) @@ (8090 :> <<7978, 921>>)
      @@ (8091 :> <<7979, 921>>) @@ (8092 :> <<7980, 921>>) @@ (8093 :> <<7981, 921>>)
      @@ (8094 :> <<7982, 921>>) @@ (8095 :> <<7983, 921>>) @@ (8096 :> <<8040, 921>>)
      @@ (8097 :> <<8041, 921>>) @@ (8098 :> <<8042, 921>>) @@ (8099 :> <<8043, 921>>)
      @@ (8100 :> <<8044, 921>>) @@ (8101 :> <<8045, 921>>) @@ (8102 :> <<8046, 921>>)
      @@ (8103 :> <<8047, 921>>) @@ (8104 :> <<8040, 921>>) @@ (8105 :> <<8041, 921>>)
      @@ (8106 :> <<8042, 921>>) @@ (8107 :> <<8043, 921>>) @@ (8108 :> <<8044, 921>>)
      @@ (8109 :> <<8045, 921>>) @@ (8110 :> <<8046, 921>>) @@ (8111 :> <<8047, 921>>)
      @@ (8114 :> <<8122, 921>>) @@ (8115 :> <<913, 921>>) @@ (8116 :> <<902, 921>>)
      @@ (8118 :> <<913, 834>>) @@ (8119 :> <<913, 834, 921>>) @@ (8124 :> <<913, 921>>)
      @@ (8130 :> <<8138, 921>>) @@ (8131 :> <<919, 921>>) @@ (8132 :> <<905, 921>>)
      @@ (8134 :> <<919, 834>>) @@ (8135 :> <<919, 834, 921>>) @@ (8140 :> <<919, 921>>)
      @@ (8146 :> <<921, 776, 768>>) @@ (8147 :> <<921, 776, 769>>)
      @@ (8150 :> <<921, 834>>) @@ (8151 :> <<921, 776, 834>>)
      @@ (8162 :> <<933, 776, 768>>) @@ (8163 :> <<933, 776, 769>>)
      @@ (8164 :> <<929, 787>>) @@ (8166 :> <<933, 834>>) @@ (8167 :> <<933, 776, 834>>)
      @@ (8178 :> <<8186, 921>>) @@ (8179 :> <<937, 921>>) @@ (8180 :> <<911, 921>>)
      @@ (8182 :> <<937, 834>>) @@ (8183 :> <<937, 834, 921>>) @@ (8188 :> <<937, 921>>)
      @@ (64256 :> <<70, 70>>) @@ (64257 :> <<70, 73>>) @@ (64258 :> <<70, 76>>)
      @@ (64259 :> <<70, 70, 73>>) @@ (64260 :> <<70, 70, 76>>) @@ (64261 :> <<83, 84>>)
      @@ (64262 :> <<83, 84>>) @@ (64275 :> <<1348, 1350>>) @@ (64276 :> <<1348, 1333>>)
      @@ (64277 :> <<1348, 1339>>) @@ (64278 :> <<1358, 1350>>) @@ (64279 :> <<1348, 1341>>)

\* Lower-case mappings, from U+0180 on
LowerRanges ==
    <<<<385, 385, 1, 210>>, <<386, 388, 2, 1>>, <<390, 390, 1, 206>>, <<391, 391, 1, 1>>,
      <<393, 394, 1, 205>>, <<395, 395, 1, 1>>, <<398, 398, 1, 79>>, <<399, 399, 1, 202>>,
      <<400, 400, 1, 203>>, <<401, 401, 1, 1>>, <<403, 403, 1, 205>>, <<404, 404, 1, 207>>,
      <<406, 406, 1, 211>>, <<407, 407, 1, 209>>, <<408, 408, 1, 1>>, <<412, 412, 1, 211>>,
      <<413, 413, 1, 213>>, <<415, 415, 1, 214>>, <<416, 420, 2, 1>>, <<422, 422, 1, 218>>,
      <<423, 423, 1, 1>>, <<425, 425, 1, 218>>, <<428, 428, 1, 1>>, <<430, 430, 1, 218>>,
      <<431, 431, 1, 1>>, <<433, 434, 1, 217>>, <<435, 437, 2, 1>>, <<439, 439, 1, 219>>,
      <<440, 440, 1, 1>>, <<444, 444, 1, 1>>, <<452, 452, 1, 2>>, <<453, 453, 1, 1>>,
      <<455, 455, 1, 2>>, <<456, 456, 1, 1>>, <<458, 458, 1, 2>>, <<459, 475, 2, 1>>,
      <<478, 494, 2, 1>>, <<497, 497, 1, 2>>, <<498, 500, 2, 1>>, <<502, 502, 1, -97>>,
      <<503, 503, 1, -56>>, <<504, 542, 2, 1>>, <<544, 544, 1, -130>>, <<546, 562, 2, 1>>,
      <<570, 570, 1, 10795>>, <<571, 571, 1, 1>>, <<573, 573, 1, -163>>, <<574, 574, 1, 10792>>,
      <<577, 577, 1, 1>>, <<579, 579, 1, -195>>, <<580, 580, 1, 69>>, <<581, 581, 1, 71>>,
      <<582, 590, 2, 1>>, <<880, 882, 2, 1>>, <<886, 886, 1, 1>>, <<895, 895, 1, 116>>,
      <<902, 902, 1, 38>>, <<904, 906, 1, 37>>, <<908, 908, 1, 64>>, <<910, 911, 1, 63>>,
      <<913, 929, 1, 32>>, <<931, 939, 1, 32>>, <<975, 975, 1, 8>>, <<984, 1006, 2, 1>>,
      <<1012, 1012, 1, -60>>, <<1015, 1015, 1, 1>>, <<1017, 1017, 1, -7>>, <<1018, 1018, 1, 1>>,
      <<1021, 1023, 1, -130>>, <<1024, 1039, 1, 80>>, <<1040, 1071, 1, 32>>, <<1120, 1152, 2, 1>>,
      <<1162, 1214, 2, 1>>, <<1216, 1216, 1, 15>>, <<1217, 1229, 2, 1>>, <<1232, 1326, 2, 1>>,
      <<1329, 1366, 1, 48>>, <<4256, 4293, 1, 7264>>, <<4295, 4295, 1, 7264>>, <<4301, 4301, 1, 7264>>,
      <<5024, 5103, 1, 38864>>, <<5104, 5109, 1, 8>>, <<7305, 7305, 1, 1>>, <<7312, 7354, 1, -3008>>,
      <<7357, 7359, 1, -3008>>, <<7680, 7828, 2, 1>>, <<7838, 7838, 1, -7615>>, <<7840, 7934, 2, 1>>,
      <<7944, 7951, 1, -8>>, <<7960, 7965, 1, -8>>, <<7976, 7983, 1, -8>>, <<7992, 7999, 1, -8>>,
      <<8008, 8013, 1, -8>>, <<8025, 8031, 2, -8>>, <<8040, 8047, 1, -8>>, <<8072, 8079, 1, -8>>,
      <<8088, 8095, 1, -8>>, <<8104, 8111, 1, -8>>, <<8120, 8121, 1, -8>>, <<8122, 8123, 1, -74>>,
      <<8124, 8124, 1, -9>>, <<8136, 8139, 1, -86>>, <<8140, 8140, 1, -9>>, <<8152, 8153, 1, -8>>,
      <<8154, 8155, 1, -100>>, <<8168, 8169, 1, -8>>, <<8170, 8171, 1, -112>>, <<8172, 8172, 1, -7>>,
      <<8184, 8185, 1, -128>>, <<8186, 8187, 1, -126>>, <<8188, 8188, 1, -9>>, <<8486, 8486, 1, -7517>>,
      <<8490, 8490, 1, -8383>>, <<8491, 8491, 1, -8262>>, <<8498, 8498, 1, 28>>, <<8544, 8559, 1, 16>>,
      <<8579, 8579, 1, 1>>, <<9398, 9423, 1, 26>>, <<11264, 11311, 1, 48>>, <<11360, 11360, 1, 1>>,
      <<11362, 11362, 1, -10743>>, <<11363, 11363, 1, -3814>>, <<11364, 11364, 1, -10727>>, <<11367, 11371, 2, 1>>,
      <<11373, 11373, 1, -10780>>, <<11374, 11374, 1, -10749>>, <<11375, 11375, 1, -10783>>, <<11376, 11376, 1, -10782>>,
      <<11378, 11378, 1, 1>>, <<11381, 11381, 1, 1>>, <<11390, 11391, 1, -10815>>, <<11392, 11490, 2, 1>>,
      <<11499, 11501, 2, 1>>, <<11506, 11506, 1, 1>>, <<42560, 42604, 2, 1>>, <<42624, 42650, 2, 1>>,
      <<42786, 42798, 2, 1>>, <<42802, 42862, 2, 1>>, <<42873, 42875, 2, 1>>, <<42877, 42877, 1, -35332>>,
      <<42878, 42886, 2, 1>>, <<42891, 42891, 1, 1>>, <<42893, 42893, 1, -42280>>, <<42896, 42898, 2, 1>>,
      <<42902, 42920, 2, 1>>, <<42922, 42922, 1, -42308>>, <<42923, 42923, 1, -42319>>, <<42924, 42924, 1, -42315>>,
      <<42925, 42925, 1, -42305>>, <<42926, 42926, 1, -42308>>, <<42928, 42928, 1, -42258>>, <<42929, 42929, 1, -42282>>,
      <<42930, 42930, 1, -42261>>, <<42931, 42931, 1, 928>>, <<42932, 42946, 2, 1>>, <<42948, 42948, 1, -48>>,
      <<42949, 42949, 1, -42307>>, <<42950, 42950, 1, -35384>>, <<42951, 42953, 2, 1>>, <<42955, 42955, 1, -42343>>,
      <<42956, 42970, 2, 1>>, <<42972, 42972, 1, -42561>>, <<42997, 42997, 1, 1>>, <<65313, 65338, 1, 32>>,
      <<66560, 66599, 1, 40>>, <<66736, 66771, 1, 40>>, <<66928, 66938, 1, 39>>, <<66940, 66954, 1, 39>>,
      <<66956, 66962, 1, 39>>, <<66964, 66965, 1, 39>>, <<68736, 68786, 1, 64>>, <<68944, 68965, 1, 32>>,
      <<71840, 71871, 1, 32>>, <<93760, 93791, 1, 32>>, <<93856, 93880, 1, 27>>, <<125184, 125217, 1, 34>>>>

\* The offset of the run among runs[lo..hi] that holds cp, 0 when there is none
RECURSIVE Offset(_, _, _, _)
Offset(runs, cp, lo, hi) ==
    IF lo > hi THEN 0
    ELSE IF cp < runs[(lo + hi) \div 2][1] THEN Offset(runs, cp, lo, ((lo + hi) \div 2) - 1)
    ELSE IF cp > runs[(lo + hi) \div 2][2] THEN Offset(runs, cp, ((lo + hi) \div 2) + 1, hi)
    ELSE IF (cp - runs[(lo + hi) \div 2][1]) % runs[(lo + hi) \div 2][3] = 0
    THEN runs[(lo + hi) \div 2][4]
    ELSE 0

\* The image of a code point under a mapping given by runs
Mapped(runs, cp) == cp + Offset(runs, cp, 1, Len(runs))

\* The code points with the property Cased and without Case_Ignorable,
\* as runs <<first, last>>
IsCased(cp) ==
    LET runs == {<<65, 90>>, <<97, 122>>, <<170, 170>>, <<181, 181>>, <<186, 186>>,
                 <<192, 214>>, <<216, 246>>, <<248, 442>>, <<444, 447>>, <<452, 659>>,
                 <<662, 687>>, <<880, 883>>, <<886, 887>>, <<891, 893>>, <<895, 895>>,
                 <<902, 902>>, <<904, 906>>, <<908, 908>>, <<910, 929>>, <<931, 1013>>,
                 <<1015, 1153>>, <<1162, 1327>>, <<1329, 1366>>, <<1376, 1416>>,
                 <<4256, 4293>>, <<4295, 4295>>, <<4301, 4301>>, <<4304, 4346>>,
                 <<4349, 4351>>, <<5024, 5109>>, <<5112, 5117>>, <<7296, 7306>>,
                 <<7312, 7354>>, <<7357, 7359>>, <<7424, 7467>>, <<7531, 7543>>,
                 <<7545, 7578>>, <<7680, 7957>>, <<7960, 7965>>, <<7968, 8005>>,
                 <<8008, 8013>>, <<8016, 8023>>, <<8025, 8025>>, <<8027, 8027>>,
                 <<8029, 8029>>, <<8031, 8061>>, <<8064, 8116>>, <<8118, 8124>>,
                 <<8126, 8126>>, <<8130, 8132>>, <<8134, 8140>>, <<8144, 8147>>,
                 <<8150, 8155>>, <<8160, 8172>>, <<8178, 8180>>, <<8182, 8188>>,
                 <<8450, 8450>>, <<8455, 8455>>, <<8458, 8467>>, <<8469, 8469>>,
                 <<8473, 8477>>, <<8484, 8484>>, <<8486, 8486>>, <<8488, 8488>>,
                 <<8490, 8493>>, <<8495, 8500>>, <<8505, 8505>>, <<8508, 8511>>,
                 <<8517, 8521>>, <<8526, 8526>>, <<8544, 8575>>, <<8579, 8580>>,
                 <<9398, 9449>>, <<11264, 11387>>, <<11390, 11492>>, <<11499, 11502>>,
                 <<11506, 11507>>, <<11520, 11557>>, <<11559, 11559>>, <<11565, 11565>>,
                 <<42560, 42605>>, <<42624, 42651>>, <<42786, 42863>>, <<42865, 42887>>,
                 <<42891, 42894>>, <<42896, 42972>>, <<42997, 42998>>, <<43002, 43002>>,
                 <<43824, 43866>>, <<43872, 43880>>, <<43888, 43967>>, <<64256, 64262>>,
                 <<64275, 64279>>, <<65313, 65338>>, <<65345, 65370>>, <<66560, 66639>>,
                 <<66736, 66771>>, <<66776, 66811>>, <<66928, 66938>>, <<66940, 66954>>,
                 <<66956, 66962>>, <<66964, 66965>>, <<66967, 66977>>, <<66979, 66993>>,
                 <<66995, 67001>>, <<67003, 67004>>, <<68736, 68786>>, <<68800, 68850>>,
                 <<68944, 68965>>, <<68976, 68997>>, <<71840, 71903>>, <<93760, 93823>>,
                 <<93856, 93880>>, <<93883, 93907>>, <<119808, 119892>>, <<119894, 119964>>,
                 <<119966, 119967>>, <<119970, 119970>>, <<119973, 119974>>,
                 <<119977, 119980>>, <<119982, 119993>>, <<119995, 119995>>,
                 <<119997, 120003>>, <<120005, 120069>>, <<120071, 120074>>,
                 <<120077, 120084>>, <<120086, 120092>>, <<120094, 120121>>,
                 <<120123, 120126>>, <<120128, 120132>>, <<120134, 120134>>,
                 <<120138, 120144>>, <<120146, 120485>>, <<120488, 120512>>,
                 <<120514, 120538>>, <<120540, 120570>>, <<120572, 120596>>,
                 <<120598, 120628>>, <<120630, 120654>>, <<120656, 120686>>,
                 <<120688, 120712>>, <<120714, 120744>>, <<120746, 120770>>,
                 <<120772, 120779>>, <<122624, 122633>>, <<122635, 122654>>,
                 <<122661, 122666>>, <<125184, 125251>>, <<127280, 127305>>,
                 <<127312, 127337>>, <<127344, 127369>>}
    IN  \E r \in runs : r[1] <= cp /\ cp <= r[2]

\* The code points with the property Case_Ignorable
IsCaseIgnorable(cp) ==
    LET runs == {<<39, 39>>, <<46, 46>>, <<58, 58>>, <<94, 94>>, <<96, 96>>, <<168, 168>>,
                 <<173, 173>>, <<175, 175>>, <<180, 180>>, <<183, 184>>, <<688, 879>>,
                 <<884, 885>>, <<890, 890>>, <<900, 901>>, <<903, 903>>, <<1155, 1161>>,
                 <<1369, 1369>>, <<1375, 1375>>, <<1425, 1469>>, <<1471, 1471>>,
                 <<1473, 1474>>, <<1476, 1477>>, <<1479, 1479>>, <<1524, 1524>>,
                 <<1536, 1541>>, <<1552, 1562>>, <<1564, 1564>>, <<1600, 1600>>,
                 <<1611, 1631>>, <<1648, 1648>>, <<1750, 1757>>, <<1759, 1768>>,
                 <<1770, 1773>>, <<1807, 1807>>, <<1809, 1809>>, <<1840, 1866>>,
                 <<1958, 1968>>, <<2027, 2037>>, <<2042, 2042>>, <<2045, 2045>>,
                 <<2070, 2093>>, <<2137, 2139>>, <<2184, 2184>>, <<2192, 2193>>,
                 <<2199, 2207>>, <<2249, 2306>>, <<2362, 2362>>, <<2364, 2364>>,
                 <<2369, 2376>>, <<2381, 2381>>, <<2385, 2391>>, <<2402, 2403>>,
                 <<2417, 2417>>, <<2433, 2433>>, <<2492, 2492>>, <<2497, 2500>>,
                 <<2509, 2509>>, <<2530, 2531>>, <<2558, 2558>>, <<2561, 2562>>,
                 <<2620, 2620>>, <<2625, 2626>>, <<2631, 2632>>, <<2635, 2637>>,
                 <<2641, 2641>>, <<2672, 2673>>, <<2677, 2677>>, <<2689, 2690>>,
                 <<2748, 2748>>, <<2753, 2757>>, <<2759, 2760>>, <<2765, 2765>>,
                 <<2786, 2787>>, <<2810, 2815>>, <<2817, 2817>>, <<2876, 2876>>,
                 <<2879, 2879>>, <<2881, 2884>>, <<2893, 2893>>, <<2901, 2902>>,
                 <<2914, 2915>>, <<2946, 2946>>, <<3008, 3008>>, <<3021, 3021>>,
                 <<3072, 3072>>, <<3076, 3076>>, <<3132, 3132>>, <<3134, 3136>>,
                 <<3142, 3144>>, <<3146, 3149>>, <<3157, 3158>>, <<3170, 3171>>,
                 <<3201, 3201>>, <<3260, 3260>>, <<3263, 3263>>, <<3270, 3270>>,
                 <<3276, 3277>>, <<3298, 3299>>, <<3328, 3329>>, <<3387, 3388>>,
                 <<3393, 3396>>, <<3405, 3405>>, <<3426, 3427>>, <<3457, 3457>>,
                 <<3530, 3530>>, <<3538, 3540>>, <<3542, 3542>>, <<3633, 3633>>,
                 <<3636, 3642>>, <<3654, 3662>>, <<3761, 3761>>, <<3764, 3772>>,
                 <<3782, 3782>>, <<3784, 3790>>, <<3864, 3865>>, <<3893, 3893>>,
                 <<3895, 3895>>, <<3897, 3897>>, <<3953, 3966>>, <<3968, 3972>>,
                 <<3974, 3975>>, <<3981, 3991>>, <<3993, 4028>>, <<4038, 4038>>,
                 <<4141, 4144>>, <<4146, 4151>>, <<4153, 4154>>, <<4157, 4158>>,
                 <<4184, 4185>>, <<4190, 4192>>, <<4209, 4212>>, <<4226, 4226>>,
                 <<4229, 4230>>, <<4237, 4237>>, <<4253, 4253>>, <<4348, 4348>>,
                 <<4957, 4959>>, <<5906, 5908>>, <<5938, 5939>>, <<5970, 5971>>,
                 <<6002, 6003>>, <<6068, 6069>>, <<6071, 6077>>, <<6086, 6086>>,
                 <<6089, 6099>>, <<6103, 6103>>, <<6109, 6109>>, <<6155, 6159>>,
                 <<6211, 6211>>, <<6277, 6278>>, <<6313, 6313>>, <<6432, 6434>>,
                 <<6439, 6440>>, <<6450, 6450>>, <<6457, 6459>>, <<6679, 6680>>,
                 <<6683, 6683>>, <<6742, 6742>>, <<6744, 6750>>, <<6752, 6752>>,
                 <<6754, 6754>>, <<6757, 6764>>, <<6771, 6780>>, <<6783, 6783>>,
                 <<6823, 6823>>, <<6832, 6877>>, <<6880, 6891>>, <<6912, 6915>>,
                 <<6964, 6964>>, <<6966, 6970>>, <<6972, 6972>>, <<6978, 6978>>,
                 <<7019, 7027>>, <<7040, 7041>>, <<7074, 7077>>, <<7080, 7081>>,
                 <<7083, 7085>>, <<7142, 7142>>, <<7144, 7145>>, <<7149, 7149>>,
                 <<7151, 7153>>, <<7212, 7219>>, <<7222, 7223>>, <<7288, 7293>>,
                 <<7376, 7378>>, <<7380, 7392>>, <<7394, 7400>>, <<7405, 7405>>,
                 <<7412, 7412>>, <<7416, 7417>>, <<7468, 7530>>, <<7544, 7544>>,
                 <<7579, 7679>>, <<8125, 8125>>, <<8127, 8129>>, <<8141, 8143>>,
                 <<8157, 8159>>, <<8173, 8175>>, <<8189, 8190>>, <<8203, 8207>>,
                 <<8216, 8217>>, <<8228, 8228>>, <<8231, 8231>>, <<8234, 8238>>,
                 <<8288, 8292>>, <<8294, 8303>>, <<8305, 8305>>, <<8319, 8319>>,
                 <<8336, 8348>>, <<8400, 8432>>, <<11388, 11389>>, <<11503, 11505>>,
                 <<11631, 11631>>, <<11647, 11647>>, <<11744, 11775>>, <<11823, 11823>>,
                 <<12293, 12293>>, <<12330, 12333>>, <<12337, 12341>>, <<12347, 12347>>,
                 <<12441, 12446>>, <<12540, 12542>>, <<40981, 40981>>, <<42232, 42237>>,
                 <<42508, 42508>>, <<42607, 42610>>, <<42612, 42621>>, <<42623, 42623>>,
                 <<42652, 42655>>, <<42736, 42737>>, <<42752, 42785>>, <<42864, 42864>>,
                 <<42888, 42890>>, <<42993, 42996>>, <<43000, 43001>>, <<43010, 43010>>,
                 <<43014, 43014>>, <<43019, 43019>>, <<43045, 43046>>, <<43052, 43052>>,
                 <<43204, 43205>>, <<43232, 43249>>, <<43263, 43263>>, <<43302, 43309>>,
                 <<43335, 43345>>, <<43392, 43394>>, <<43443, 43443>>, <<43446, 43449>>,
                 <<43452, 43453>>, <<43471, 43471>>, <<43493, 43494>>, <<43561, 43566>>,
                 <<43569, 43570>>, <<43573, 43574>>, <<43587, 43587>>, <<43596, 43596>>,
                 <<43632, 43632>>, <<43644, 43644>>, <<43696, 43696>>, <<43698, 43700>>,
                 <<43703, 43704>>, <<43710, 43711>>, <<43713, 43713>>, <<43741, 43741>>,
                 <<43756, 43757>>, <<43763, 43764>>, <<43766, 43766>>, <<43867, 43871>>,
                 <<43881, 43883>>, <<44005, 44005>>, <<44008, 44008>>, <<44013, 44013>>,
                 <<64286, 64286>>, <<64434, 64450>>, <<65024, 65039>>, <<65043, 65043>>,
                 <<65056, 65071>>, <<65106, 65106>>, <<65109, 65109>>, <<65279, 65279>>,
                 <<65287, 65287>>, <<65294, 65294>>, <<65306, 65306>>, <<65342, 65342>>,
                 <<65344, 65344>>, <<65392, 65392>>, <<65438, 65439>>, <<65507, 65507>>,
                 <<65529, 65531>>, <<66045, 66045>>, <<66272, 66272>>, <<66422, 66426>>,
                 <<67456, 67461>>, <<67463, 67504>>, <<67506, 67514>>, <<68097, 68099>>,
                 <<68101, 68102>>, <<68108, 68111>>, <<68152, 68154>>, <<68159, 68159>>,
                 <<68325, 68326>>, <<68900, 68903>>, <<68942, 68942>>, <<68969, 68973>>,
                 <<68975, 68975>>, <<69291, 69292>>, <<69317, 69317>>, <<69370, 69375>>,
                 <<69446, 69456>>, <<69506, 69509>>, <<69633, 69633>>, <<69688, 69702>>,
                 <<69744, 69744>>, <<69747, 69748>>, <<69759, 69761>>, <<69811, 69814>>,
                 <<69817, 69818>>, <<69821, 69821>>, <<69826, 69826>>, <<69837, 69837>>,
                 <<69888, 69890>>, <<69927, 69931>>, <<69933, 69940>>, <<70003, 70003>>,
                 <<70016, 70017>>, <<70070, 70078>>, <<70089, 70092>>, <<70095, 70095>>,
                 <<70191, 70193>>, <<70196, 70196>>, <<70198, 70199>>, <<70206, 70206>>,
                 <<70209, 70209>>, <<70367, 70367>>, <<70371, 70378>>, <<70400, 70401>>,
                 <<70459, 70460>>, <<70464, 70464>>, <<70502, 70508>>, <<70512, 70516>>,
                 <<70587, 70592>>, <<70606, 70606>>, <<70608, 70608>>, <<70610, 70610>>,
                 <<70625, 70626>>, <<70712, 70719>>, <<70722, 70724>>, <<70726, 70726>>,
                 <<70750, 70750>>, <<70835, 70840>>, <<70842, 70842>>, <<70847, 70848>>,
                 <<70850, 70851>>, <<71090, 71093>>, <<71100, 71101>>, <<71103, 71104>>,
                 <<71132, 71133>>, <<71219, 71226>>, <<71229, 71229>>, <<71231, 71232>>,
                 <<71339, 71339>>, <<71341, 71341>>, <<71344, 71349>>, <<71351, 71351>>,
                 <<71453, 71453>>, <<71455, 71455>>, <<71458, 71461>>, <<71463, 71467>>,
                 <<71727, 71735>>, <<71737, 71738>>, <<71995, 71996>>, <<71998, 71998>>,
                 <<72003, 72003>>, <<72148, 72151>>, <<72154, 72155>>, <<72160, 72160>>,
                 <<72193, 72202>>, <<72243, 72248>>, <<72251, 72254>>, <<72263, 72263>>,
                 <<72273, 72278>>, <<72281, 72283>>, <<72330, 72342>>, <<72344, 72345>>,
                 <<72544, 72544>>, <<72546, 72548>>, <<72550, 72550>>, <<72752, 72758>>,
                 <<72760, 72765>>, <<72767, 72767>>, <<72850, 72871>>, <<72874, 72880>>,
                 <<72882, 72883>>, <<72885, 72886>>, <<73009, 73014>>, <<73018, 73018>>,
                 <<73020, 73021>>, <<73023, 73029>>, <<73031, 73031>>, <<73104, 73105>>,
                 <<73109, 73109>>, <<73111, 73111>>, <<73177, 73177>>, <<73459, 73460>>,
                 <<73472, 73473>>, <<73526, 73530>>, <<73536, 73536>>, <<73538, 73538>>,
                 <<73562, 73562>>, <<78896, 78912>>, <<78919, 78933>>, <<90398, 90409>>,
                 <<90413, 90415>>, <<92912, 92916>>, <<92976, 92982>>, <<92992, 92995>>,
                 <<93504, 93506>>, <<93547, 93548>>, <<94031, 94031>>, <<94095, 94111>>,
                 <<94176, 94177>>, <<94179, 94180>>, <<94194, 94195>>, <<110576, 110579>>,
                 <<110581, 110587>>, <<110589, 110590>>, <<113821, 113822>>,
                 <<113824, 113827>>, <<118528, 118573>>, <<118576, 118598>>,
                 <<119143, 119145>>, <<119155, 119170>>, <<119173, 119179>>,
                 <<119210, 119213>>, <<119362, 119364>>, <<121344, 121398>>,
                 <<121403, 121452>>, <<121461, 121461>>, <<121476, 121476>>,
                 <<121499, 121503>>, <<121505, 121519>>, <<122880, 122886>>,
                 <<122888, 122904>>, <<122907, 122913>>, <<122915, 122916>>,
                 <<122918, 122922>>, <<122928, 122989>>, <<123023, 123023>>,
                 <<123184, 123197>>, <<123566, 123566>>, <<123628, 123631>>,
                 <<124139, 124143>>, <<124398, 124399>>, <<124643, 124643>>,
                 <<124646, 124646>>, <<124654, 124655>>, <<124661, 124661>>,
                 <<124671, 124671>>, <<125136, 125142>>, <<125252, 125259>>,
                 <<127995, 127999>>, <<917505, 917505>>, <<917536, 917631>>,
                 <<917760, 917999>>}
    IN  \E r \in runs : r[1] <= cp /\ cp <= r[2]

\* The upper-case mapping of one code unit where it is one code unit, else
\* the code unit itself: written out for Basic Latin, Latin-1 Supplement and
\* Latin Extended-A, which hold the Turkish alphabet
UpperChar(c) ==
    CASE c \in 97..122 -> c - 32
      [] c = 181 -> 924
      [] c \in (224..254) \ {247} -> c - 32
      [] c = 255 -> 376
      [] c \in 256..303 /\ c % 2 = 1 -> c - 1
      [] c = 305 -> 73
      [] c \in 306..311 /\ c % 2 = 1 -> c - 1
      [] c \in 313..328 /\ c % 2 = 0 -> c - 1
      [] c \in 330..375 /\ c % 2 = 1 -> c - 1
      [] c \in 377..382 /\ c % 2 = 0 -> c - 1
      [] c = 383 -> 83
      [] c >= 384 -> Mapped(UpperRanges, c)
      [] OTHER -> c

\* Upper-casing of one code unit as a string: some characters expand
UpperStr(c) ==
    CASE c = 223 -> <<83, 83>>
      [] c = 329 -> <<700, 78>>
      [] c >= 384 /\ c \in DOMAIN UpperSpecial -> UpperSpecial[c]
      [] OTHER -> <<UpperChar(c)>>

\* Lower-casing of one code unit as a string: U+0130 becomes "i" + U+0307
LowerStr(c) ==
    CASE c \in 65..90 -> <<c + 32>>
      [] c \in (192..222) \ {215} -> <<c + 32>>
      [] c \in 256..303 /\ c % 2 = 0 -> <<c + 1>>
      [] c = 304 -> <<105, 775>>
      [] c \in 306..311 /\ c % 2 = 0 -> <<c + 1>>
      [] c \in 313..328 /\ c % 2 = 1 -> <<c + 1>>
      [] c \in 330..375 /\ c % 2 = 0 -> <<c + 1>>
      [] c = 376 -> <<255>>
      [] c \in 377..382 /\ c % 2 = 1 -> <<c + 1>>
      [] c >= 384 -> <<Mapped(LowerRanges, c)>>
      [] OTHER -> <<c>>

\* A surrogate pair begins at position k of s
IsPairAt(s, k) ==
    /\ 1 <= k /\ k < Len(s)
    /\ s[k] \in 55296..56319
    /\ s[k + 1] \in 56320..57343

\* The code point at position k
CodePointAt(s, k) ==
    IF IsPairAt(s, k) THEN 65536 + (s[k] - 55296) * 1024 + (s[k + 1] - 56320) ELSE s[k]

\* The code units of a code point
CodeUnits(cp) ==
    IF cp < 65536 THEN <<cp>>
    ELSE <<55296 + ((cp - 65536) \div 1024), 56320 + ((cp - 65536) % 1024)>>

\* Final_Sigma: a cased letter comes before, over case-ignorable characters
RECURSIVE CasedBefore(_, _)
CasedBefore(s, j) ==
    IF j < 1 THEN FALSE
    ELSE IF IsPairAt(s, j - 1)
    THEN IF IsCaseIgnorable(CodePointAt(s, j - 1)) THEN CasedBefore(s, j - 2)
         ELSE IsCased(CodePointAt(s, j - 1))
    ELSE IF IsCaseIgnorable(s[j]) THEN CasedBefore(s, j - 1)
         ELSE IsCased(s[j])

\* Final_Sigma: a cased letter comes after, over case-ignorable characters
RECURSIVE CasedAfter(_, _)
CasedAfter(s, j) ==
    IF j > Len(s) THEN FALSE
    ELSE IF IsCaseIgnorable(CodePointAt(s, j))
    THEN CasedAfter(s, IF IsPairAt(s, j) THEN j + 2 ELSE j + 1)
    ELSE IsCased(CodePointAt(s, j))

RECURSIVE ToUpperCase(_)
ToUpperCase(s) ==
    IF s = <<>> THEN <<>>
    ELSE IF IsPairAt(s, 1)
    THEN CodeUnits(Mapped(UpperRanges, CodePointAt(s, 1))) \o ToUpperCase(Tail(Tail(s)))
    ELSE UpperStr(Head(s)) \o ToUpperCase(Tail(s))

\* The lower-casing of s from position k on: capital sigma becomes the final
\* sigma after a cased letter and not before one
RECURSIVE LowerFrom(_, _)
LowerFrom(s, k) ==
    IF k > Len(s) THEN <<>>
    ELSE IF s[k] = 931
    THEN <<IF CasedBefore(s, k - 1) /\ ~CasedAfter(s, k + 1) THEN 962 ELSE 963>>
         \o LowerFrom(s, k + 1)
    ELSE IF IsPairAt(s, k)
    THEN CodeUnits(Mapped(LowerRanges, CodePointAt(s, k))) \o LowerFrom(s, k + 2)
    ELSE LowerStr(s[k]) \o LowerFrom(s, k + 1)

ToLowerCase(s) == LowerFrom(s, 1)

StartsWith(s, prefix) ==
    /\ Len(prefix) <= Len(s)
    /\ SubSeq(s, 1, Len(prefix)) = prefix

Includes(s, part) ==
    \E i \in 0..(Len(s) - Len(part)) : SubSeq(s, i + 1, i + Len(part)) = part

(***************************************************************************)
(* Regular expressions.  A pattern is a tree: a literal, a character       *)
(* class, a concatenation, an alternation or a repetition {min,}.          *)
(* Ends(re, s, i, ic) is the set of positions at which a match of re that  *)
(* starts at position i of s can end; ic is the /i flag.                   *)
(***************************************************************************)
Lit(str) == [k |-> "lit", s |-> str]
Cls(set) == [k |-> "cls", c |-> set, neg |-> FALSE]
NotCls(set) == [k |-> "cls", c |-> set, neg |-> TRUE]
Cat(rs) == [k |-> "cat", r |-> rs]
Alt(rs) == [k |-> "alt", r |-> rs]
Rep(r, min) == [k |-> "rep", r |-> <<r>>, min |-> min]
Star(r) == Rep(r, 0)
Plus(r) == Rep(r, 1)
Opt(r) == Alt(<<r, Cat(<<>>)>>)

Digit == Cls(48..57)
Space == Cls(WhiteSpace)

\* Canonicalize of the /i flag without the /u flag: the upper-case mapping,
\* except that a non-ASCII character is never folded onto an ASCII one
Canonicalize(ch) ==
    IF Len(UpperStr(ch)) # 1 THEN ch
    ELSE IF ch >= 128 /\ UpperChar(ch) < 128 THEN ch
    ELSE UpperChar(ch)

InClass(ch, cls, ic) ==
    LET found == IF ic THEN \E a \in cls.c : Canonicalize(a) = Canonicalize(ch)
                 ELSE ch \in cls.c
    IN  found # cls.neg

RECURSIVE Ends(_, _, _, _)
RECURSIVE CatEnds(_, _, _, _, _)
RECURSIVE RepEnds(_, _, _, _, _)
RECURSIVE Closure(_, _, _, _, _)

StepEnds(r, s, P, ic) == UNION {Ends(r, s, p, ic) : p \in P}

Ends(re, s, i, ic) ==
    CASE re.k = "lit" ->
            IF /\ i + Len(re.s) <= Len(s)
               /\ \A j \in 1..Len(re.s) :
                     IF ic THEN Canonicalize(re.s[j]) = Canonicalize(s[i + j])
                     ELSE re.s[j] = s[i + j]
            THEN {i + Len(re.s)} ELSE {}
      [] re.k = "cls" ->
            IF i < Len(s) /\ InClass(s[i + 1], re, ic) THEN {i + 1} ELSE {}
      [] re.k = "cat" -> CatEnds(re.r, 1, s, {i}, ic)
      [] re.k = "alt" -> UNION {Ends(re.r[a], s, i, ic) : a \in 1..Len(re.r)}
      [] re.k = "rep" -> RepEnds(re.r[1], re.min, s, {i}, ic)

CatEnds(rs, n, s, P, ic) ==
    IF n > Len(rs) \/ P = {} THEN P
    ELSE CatEnds(rs, n + 1, s, StepEnds(rs[n], s, P, ic), ic)

RepEnds(r, min, s, P, ic) ==
    IF min > 0 THEN RepEnds(r, min - 1, s, StepEnds(r, s, P, ic), ic)
    ELSE Closure(r, s, P, P, ic)

Closure(r, s, seen, front, ic) ==
    LET nxt == StepEnds(r, s, front, ic) \ seen
    IN  IF nxt = {} THEN seen ELSE Closure(r, s, seen \cup nxt, nxt, ic)

\* A regular expression literal /^body$/flags: hat and dollar say whether the
\* body is anchored at the start and at the end of the input
RegExp(hat, body, dollar, ic) == [hat |-> hat, body |-> body, dollar |-> dollar, ic |-> ic]

\* RegExp.prototype.test (no pattern of the program has the g or y flag, so
\* test keeps no lastIndex between calls)
Test(p, s) ==
    \E i \in (IF p.hat THEN {0} ELSE 0..Len(s)) :
        LET e == Ends(p.body, s, i, p.ic)
        IN  IF p.dollar THEN Len(s) \in e ELSE e # {}

(***************************************************************************)
(* Constants of the program                                                *)
(***************************************************************************)
\* EBYÜ_RULES, the detection thresholds
EBYU_RULES ==
    [MIN_BODY_TEXT_LENGTH |-> 30, BLOCK_QUOTE_MIN_INDENT |-> 20,
     ABSTRACT_MIN_WORDS |-> 200, ABSTRACT_MAX_WORDS |-> 250]

HIGHLIGHT_COLORS == [CRITICAL |-> "Red", FORMAT |-> "Yellow", FOUND |-> "Cyan"]

\* The enumeration without its last member: PARA_TYPES.UNKNOWN reads undefined
PARA_TYPES_noUnknown ==
    [TOC_ENTRY |-> "TOC_ENTRY", MAIN_HEADING |-> "MAIN_HEADING",
     SUB_HEADING |-> "SUB_HEADING", BODY_TEXT |-> "BODY_TEXT",
     BLOCK_QUOTE |-> "BLOCK_QUOTE", BIBLIOGRAPHY |-> "BIBLIOGRAPHY",
     CAPTION_TITLE |-> "CAPTION_TITLE", EPIGRAPH |-> "EPIGRAPH",
     LIST_ITEM |-> "LIST_ITEM", GHOST_HEADING |-> "GHOST_HEADING",
     FRONT_MATTER |-> "FRONT_MATTER", COVER_TEXT |-> "COVER_TEXT",
     EMPTY |-> "EMPTY", UNKNOWN |-> "undefined"]

PARA_TYPES ==
    [TOC_ENTRY |-> "TOC_ENTRY", MAIN_HEADING |-> "MAIN_HEADING",
     SUB_HEADING |-> "SUB_HEADING", BODY_TEXT |-> "BODY_TEXT",
     BLOCK_QUOTE |-> "BLOCK_QUOTE", BIBLIOGRAPHY |-> "BIBLIOGRAPHY",
     CAPTION_TITLE |-> "CAPTION_TITLE", EPIGRAPH |-> "EPIGRAPH",
     LIST_ITEM |-> "LIST_ITEM", GHOST_HEADING |-> "GHOST_HEADING",
     FRONT_MATTER |-> "FRONT_MATTER", COVER_TEXT |-> "COVER_TEXT",
     EMPTY |-> "EMPTY", UNKNOWN |-> "UNKNOWN"]

ZONES ==
    [COVER |-> "COVER", FRONT_MATTER |-> "FRONT_MATTER",
     TABLE_OF_CONTENTS |-> "TABLE_OF_CONTENTS", ABSTRACT_TR |-> "ABSTRACT_TR",
     ABSTRACT_EN |-> "ABSTRACT_EN", BODY |-> "BODY", BACK_MATTER |-> "BACK_MATTER"]

\* (LİSTESİ|DİZİNİ)?
ListSuffix == Opt(Alt(<<Lit(<<76, 304, 83, 84, 69, 83, 304>>), Lit(<<68, 304, 90, 304, 78, 304>>)>>))

PATTERNS ==
    [MAIN_HEADING |-> <<
        \* /^(BİRİNCİ|İKİNCİ|ÜÇÜNCÜ|DÖRDÜNCÜ|BEŞİNCİ|ALTINCI|YEDİNCİ|SEKİZİNCİ|DOKUZUNCU|ONUNCU)\s*BÖLÜM$/i
        RegExp(TRUE, Cat(<<Alt(<<Lit(<<66, 304, 82, 304, 78, 67, 304>>),
                                 Lit(<<304, 75, 304, 78, 67, 304>>),
                                 Lit(<<220, 199, 220, 78, 67, 220>>),
                                 Lit(<<68, 214, 82, 68, 220, 78, 67, 220>>),
                                 Lit(<<66, 69, 350, 304, 78, 67, 304>>),
                                 Lit(<<65, 76, 84, 73, 78, 67, 73>>),
                                 Lit(<<89, 69, 68, 304, 78, 67, 304>>),
                                 Lit(<<83, 69, 75, 304, 90, 304, 78, 67, 304>>),
                                 Lit(<<68, 79, 75, 85, 90, 85, 78, 67, 85>>),
                                 Lit(<<79, 78, 85, 78, 67, 85>>)>>),
                           Star(Space), Lit(<<66, 214, 76, 220, 77>>)>>), TRUE, TRUE),
        \* /^BÖLÜM\s*[IVX\d]+/i
        RegExp(TRUE, Cat(<<Lit(<<66, 214, 76, 220, 77>>), Star(Space), Plus(Cls({73, 86, 88} \cup (48..57)))>>), FALSE, TRUE),
        \* /^(GİRİŞ|SONUÇ|SONUÇ VE ÖNERİLER|TARTIŞMA|KAYNAKÇA|KAYNAKLAR|ÖZET|ABSTRACT|SUMMARY)$/i
        RegExp(TRUE, Alt(<<Lit(<<71, 304, 82, 304, 350>>),
                           Lit(<<83, 79, 78, 85, 199>>),
                           Lit(<<83, 79, 78, 85, 199, 32, 86, 69, 32, 214, 78, 69, 82, 304, 76, 69, 82>>),
                           Lit(<<84, 65, 82, 84, 73, 350, 77, 65>>),
                           Lit(<<75, 65, 89, 78, 65, 75, 199, 65>>),
                           Lit(<<75, 65, 89, 78, 65, 75, 76, 65, 82>>),
                           Lit(<<214, 90, 69, 84>>),
                           Lit(<<65, 66, 83, 84, 82, 65, 67, 84>>),
                           Lit(<<83, 85, 77, 77, 65, 82, 89>>)>>), TRUE, TRUE),
        \* /^ÖN\s*SÖZ$/i
        RegExp(TRUE, Cat(<<Lit(<<214, 78>>), Star(Space), Lit(<<83, 214, 90>>)>>), TRUE, TRUE),
        \* /^KISALTMALAR\s*(LİSTESİ|DİZİNİ)?$/i
        RegExp(TRUE, Cat(<<Lit(<<75, 73, 83, 65, 76, 84, 77, 65, 76, 65, 82>>), Star(Space), ListSuffix>>), TRUE, TRUE),
        \* /^(TABLOLAR|ŞEKİLLER|GRAFİKLER|SİMGELER)\s*(LİSTESİ|DİZİNİ)?$/i
        RegExp(TRUE, Cat(<<Alt(<<Lit(<<84, 65, 66, 76, 79, 76, 65, 82>>),
                                 Lit(<<350, 69, 75, 304, 76, 76, 69, 82>>),
                                 Lit(<<71, 82, 65, 70, 304, 75, 76, 69, 82>>),
                                 Lit(<<83, 304, 77, 71, 69, 76, 69, 82>>)>>),
                           Star(Space), ListSuffix>>), TRUE, TRUE),
        \* /^İÇİNDEKİLER$/i
        RegExp(TRUE, Lit(<<304, 199, 304, 78, 68, 69, 75, 304, 76, 69, 82>>), TRUE, TRUE),
        \* /^EKLER?$/i
        RegExp(TRUE, Cat(<<Lit(<<69, 75, 76, 69>>), Opt(Lit(<<82>>))>>), TRUE, TRUE)>>,
     SUB_HEADING |-> <<
        \* /^\d+\.\d+(\.\d+)*\.?\s+[A-ZÇĞİÖŞÜa-zçğıöşü]/
        RegExp(TRUE, Cat(<<Plus(Digit), Lit(<<46>>), Plus(Digit),
                           Star(Cat(<<Lit(<<46>>), Plus(Digit)>>)), Opt(Lit(<<46>>)), Plus(Space),
                           Cls((65..90) \cup {199, 286, 304, 214, 350, 220}
                                 \cup (97..122) \cup {231, 287, 305, 246, 351, 252})>>),
               FALSE, FALSE)>>,
     \* /^Tablo\s*(\d+)\.(\d+)\s*[:.]/i
     CAPTION_TABLE |->
        RegExp(TRUE, Cat(<<Lit(<<84, 97, 98, 108, 111>>), Star(Space), Plus(Digit), Lit(<<46>>), Plus(Digit),
                           Star(Space), Cls({58, 46})>>), FALSE, TRUE),
     \* /^(Şekil|Grafik|Resim|Harita)\s*(\d+)\.(\d+)\s*[:.]/i
     CAPTION_FIGURE |->
        RegExp(TRUE, Cat(<<Alt(<<Lit(<<350, 101, 107, 105, 108>>),
                                 Lit(<<71, 114, 97, 102, 105, 107>>),
                                 Lit(<<82, 101, 115, 105, 109>>),
                                 Lit(<<72, 97, 114, 105, 116, 97>>)>>),
                           Star(Space), Plus(Digit), Lit(<<46>>), Plus(Digit),
                           Star(Space), Cls({58, 46})>>), FALSE, TRUE),
     \* /\.{5,}\s*(i|v|x|\d)+$/i
     TOC_CONTENT |->
        RegExp(FALSE, Cat(<<Rep(Lit(<<46>>), 5), Star(Space),
                            Plus(Alt(<<Lit(<<105>>), Lit(<<118>>), Lit(<<120>>), Digit>>))>>),
               TRUE, TRUE),
     \* [/^GİRİŞ$/i]
     BODY_START |-> <<RegExp(TRUE, Lit(<<71, 304, 82, 304, 350>>), TRUE, TRUE)>>,
     \* [/^(KAYNAKÇA|KAYNAKLAR|REFERANSLAR|REFERENCES)$/i]
     BACK_MATTER_START |-> <<
        RegExp(TRUE, Alt(<<Lit(<<75, 65, 89, 78, 65, 75, 199, 65>>),
                           Lit(<<75, 65, 89, 78, 65, 75, 76, 65, 82>>),
                           Lit(<<82, 69, 70, 69, 82, 65, 78, 83, 76, 65, 82>>),
                           Lit(<<82, 69, 70, 69, 82, 69, 78, 67, 69, 83>>)>>), TRUE, TRUE)>>,
     COVER_IDENTIFIERS |-> <<
        \* /^T\.?C\.?$/i
        RegExp(TRUE, Cat(<<Lit(<<84>>), Opt(Lit(<<46>>)), Lit(<<67>>), Opt(Lit(<<46>>))>>), TRUE, TRUE),
        \* /^ERZİNCAN\s*BİNALİ\s*YILDIRIM/i
        RegExp(TRUE, Cat(<<Lit(<<69, 82, 90, 304, 78, 67, 65, 78>>), Star(Space), Lit(<<66, 304, 78, 65, 76, 304>>), Star(Space), Lit(<<89, 73, 76, 68, 73, 82, 73, 77>>)>>), FALSE, TRUE),
        \* /^ÜNİVERSİTESİ$/i
        RegExp(TRUE, Lit(<<220, 78, 304, 86, 69, 82, 83, 304, 84, 69, 83, 304>>), TRUE, TRUE),
        \* /^(FEN|SOSYAL)\s*BİLİMLERİ\s*ENSTİTÜSÜ$/i
        RegExp(TRUE, Cat(<<Alt(<<Lit(<<70, 69, 78>>), Lit(<<83, 79, 83, 89, 65, 76>>)>>), Star(Space), Lit(<<66, 304, 76, 304, 77, 76, 69, 82, 304>>),
                           Star(Space), Lit(<<69, 78, 83, 84, 304, 84, 220, 83, 220>>)>>), TRUE, TRUE),
        \* /^(YÜKSEK\s*LİSANS|DOKTORA)\s*TEZİ$/i
        RegExp(TRUE, Cat(<<Alt(<<Cat(<<Lit(<<89, 220, 75, 83, 69, 75>>), Star(Space), Lit(<<76, 304, 83, 65, 78, 83>>)>>), Lit(<<68, 79, 75, 84, 79, 82, 65>>)>>),
                           Star(Space), Lit(<<84, 69, 90, 304>>)>>), TRUE, TRUE),
        \* /^DANIŞMAN/i
        RegExp(TRUE, Lit(<<68, 65, 78, 73, 350, 77, 65, 78>>), FALSE, TRUE),
        \* /^Tez\s*Danışmanı/i
        RegExp(TRUE, Cat(<<Lit(<<84, 101, 122>>), Star(Space), Lit(<<68, 97, 110, 305, 351, 109, 97, 110, 305>>)>>), FALSE, TRUE)>>,
     FRONT_MATTER_IDENTIFIERS |-> <<
        \* /^İÇİNDEKİLER$/i
        RegExp(TRUE, Lit(<<304, 199, 304, 78, 68, 69, 75, 304, 76, 69, 82>>), TRUE, TRUE),
        \* /^ÖN\s*SÖZ$/i
        RegExp(TRUE, Cat(<<Lit(<<214, 78>>), Star(Space), Lit(<<83, 214, 90>>)>>), TRUE, TRUE),
        \* /^ÖNSÖZ$/i
        RegExp(TRUE, Lit(<<214, 78, 83, 214, 90>>), TRUE, TRUE),
        \* /^TEŞEKKÜR$/i
        RegExp(TRUE, Lit(<<84, 69, 350, 69, 75, 75, 220, 82>>), TRUE, TRUE),
        \* /^KISALTMALAR/i
        RegExp(TRUE, Lit(<<75, 73, 83, 65, 76, 84, 77, 65, 76, 65, 82>>), FALSE, TRUE),
        \* /^SİMGELER/i
        RegExp(TRUE, Lit(<<83, 304, 77, 71, 69, 76, 69, 82>>), FALSE, TRUE),
        \* /^TABLOLAR\s*(LİSTESİ|DİZİNİ)?$/i
        RegExp(TRUE, Cat(<<Lit(<<84, 65, 66, 76, 79, 76, 65, 82>>), Star(Space), ListSuffix>>), TRUE, TRUE),
        \* /^ŞEKİLLER\s*(LİSTESİ|DİZİNİ)?$/i
        RegExp(TRUE, Cat(<<Lit(<<350, 69, 75, 304, 76, 76, 69, 82>>), Star(Space), ListSuffix>>), TRUE, TRUE),
        \* /^ÖZET$/i
        RegExp(TRUE, Lit(<<214, 90, 69, 84>>), TRUE, TRUE),
        \* /^ABSTRACT$/i
        RegExp(TRUE, Lit(<<65, 66, 83, 84, 82, 65, 67, 84>>), TRUE, TRUE)>>]

(***************************************************************************)
(* Helper functions - pattern matching                                     *)
(***************************************************************************)
\* if (!text) return false; patterns.some(p => p.test(text.trim()))
matchesAnyPattern(text, patterns) ==
    LET trimmed == Trim(text)
    IN  text # <<>> /\ \E n \in 1..Len(patterns) : Test(patterns[n], trimmed)

isMainHeadingText(text) == matchesAnyPattern(text, PATTERNS.MAIN_HEADING)

\* No text is a sub-heading text
noSubHeadingText(text) == FALSE

isSubHeadingText(text) == matchesAnyPattern(text, PATTERNS.SUB_HEADING)

isTOCEntry(style, text) ==
    LET styleLower == ToLowerCase(style)
    IN  IF Includes(styleLower, <<116, 111, 99>> (* "toc" *)) \/ Includes(styleLower, <<105, 231, 105, 110, 100, 101, 107, 105, 108, 101, 114>> (* "içindekiler" *))
        THEN TRUE
        ELSE Test(PATTERNS.TOC_CONTENT, text)

\* No text is a caption
neverCaption(text) == [isCaption |-> FALSE, type |-> "null", isCorrect |-> FALSE]

isCaption(text) ==
    LET trimmed == Trim(text)
        tableMatch == Test(PATTERNS.CAPTION_TABLE, trimmed)
        figureMatch == Test(PATTERNS.CAPTION_FIGURE, trimmed)
    IN  [isCaption |-> tableMatch \/ figureMatch,
         type |-> IF tableMatch THEN "table" ELSE IF figureMatch THEN "figure" ELSE "null",
         isCorrect |-> tableMatch \/ figureMatch]

\* isCoverItem that knows no cover identifier
neverCoverItem(text) == FALSE

isCoverItem(text) == matchesAnyPattern(text, PATTERNS.COVER_IDENTIFIERS)

isHeadingStyle(style) ==
    IF style = <<>> THEN FALSE
    ELSE LET s == ToLowerCase(style)
         IN  Includes(s, <<104, 101, 97, 100, 105, 110, 103>> (* "heading" *)) \/ Includes(s, <<98, 97, 351, 108, 305, 107>> (* "başlık" *)) \/ Includes(s, <<116, 105, 116, 108, 101>> (* "title" *))

\* /heading\s*1/i.test(style) || /başlık\s*1/i.test(style)
isLevelOneStyle(style) ==
    \/ Test(RegExp(FALSE, Cat(<<Lit(<<104, 101, 97, 100, 105, 110, 103>> (* "heading" *)), Star(Space), Lit(<<49>>)>>), FALSE, TRUE), style)
    \/ Test(RegExp(FALSE, Cat(<<Lit(<<98, 97, 351, 108, 305, 107>> (* "başlık" *)), Star(Space), Lit(<<49>>)>>), FALSE, TRUE), style)

(***************************************************************************)
(* parseInt(string) with no radix; NaN is the value it gives a string     *)
(* that starts with no digit                                               *)
(***************************************************************************)
NaN == [t |-> "NaN"]

DigitValue(c) ==
    CASE c \in 48..57 -> c - 48
      [] c \in 65..90 -> c - 55
      [] c \in 97..122 -> c - 87
      [] OTHER -> 99

RECURSIVE ParseDigits(_, _, _, _)
ParseDigits(s, radix, acc, seen) ==
    IF s # <<>> /\ DigitValue(Head(s)) < radix
    THEN ParseDigits(Tail(s), radix, acc * radix + DigitValue(Head(s)), TRUE)
    ELSE IF seen THEN Num(acc) ELSE NaN

parseInt(str) ==
    LET s0 == TrimStart(str)
        neg == s0 # <<>> /\ Head(s0) = 45
        s1 == IF s0 # <<>> /\ Head(s0) \in {43, 45} THEN Tail(s0) ELSE s0
        hex == Len(s1) >= 2 /\ s1[1] = 48 /\ s1[2] \in {88, 120}
        r == IF hex THEN ParseDigits(Tail(Tail(s1)), 16, 0, FALSE)
             ELSE ParseDigits(s1, 10, 0, FALSE)
    IN  IF r.t = "number" /\ neg THEN Num(0 - r.n) ELSE r

(***************************************************************************)
(* Paragraph type detection (priority chain), taskpane.js                  *)
(***************************************************************************)
\* The outline-level test of README.md: heading levels are 1..9
isHeadingByOutline(outlineLevel) ==
    outlineLevel.t = "number" /\ outlineLevel.n >= 1 /\ outlineLevel.n <= 9

\* Priority 2, the outline-level test of an empty paragraph: a number, or a
\* string that parseInt reads as a number, within 0..8

isGhostOutline(outlineLevel) ==
    IF outlineLevel.t \in {"undefined", "null"} THEN FALSE
    ELSE IF outlineLevel.t = "number" THEN outlineLevel.n >= 0 /\ outlineLevel.n <= 8
    ELSE IF outlineLevel.t = "string" /\ parseInt(outlineLevel.s).t = "number"
         THEN parseInt(outlineLevel.s).n >= 0 /\ parseInt(outlineLevel.s).n <= 8
    ELSE FALSE

\* Priority 1 for nested tables only
isNestedTableContent(tableNestingLevel) == tableNestingLevel > 1

\* Priority 1: inside table = table content
isTableContent(tableNestingLevel) == tableNestingLevel > 0

\* Priority 6 with the bibliography flag left out
isBibliographyEntryAnywhere(trimmed, isInBiblio) ==
    Len(trimmed) > 5 /\ ~matchesAnyPattern(trimmed, PATTERNS.BACK_MATTER_START)

\* Priority 6: in the bibliography, longer than 5 characters, and not the
\* bibliography heading itself
isBibliographyEntry(trimmed, isInBiblio) ==
    /\ isInBiblio /\ Len(trimmed) > 5
    /\ ~matchesAnyPattern(trimmed, PATTERNS.BACK_MATTER_START)

\* Priority 9 with > in place of >=
isAboveBlockQuoteIndent(leftIndent, minIndent) ==
    Truthy(leftIndent) /\ leftIndent.n > minIndent

\* Priority 9: leftIndent && leftIndent >= BLOCK_QUOTE_MIN_INDENT
isBlockQuoteIndent(leftIndent, minIndent) ==
    Truthy(leftIndent) /\ leftIndent.n >= minIndent

detectParagraphType(paraData, zone, isInBiblio) ==
    LET text == paraData.text
        style == paraData.style
        outlineLevel == paraData.outlineLevel
        tableNestingLevel == paraData.tableNestingLevel
        leftIndent == paraData.leftIndent
        trimmed == Trim(text)
        isMainByOutline == outlineLevel = Num(0) \/ outlineLevel = Num(1)
        isMainByText == isMainHeadingText(trimmed)
        isMainByStyle == isHeadingStyle(style) /\ isLevelOneStyle(style)
        isSubByOutline == outlineLevel.t = "number" /\ outlineLevel.n >= 2 /\ outlineLevel.n <= 8
        isSubByText == isSubHeadingText(trimmed)
        isSubByStyle == isHeadingStyle(style) /\ ~isMainByStyle
    IN  \* Priority 1: inside table = table content
        IF isTableContent(tableNestingLevel)
        THEN (IF isCaption(trimmed).isCaption THEN PARA_TYPES.CAPTION_TITLE
              ELSE PARA_TYPES.BODY_TEXT)
        \* Priority 2: empty paragraph - check for ghost heading
        ELSE IF Len(trimmed) = 0
        THEN (IF isGhostOutline(outlineLevel) THEN PARA_TYPES.GHOST_HEADING
              ELSE IF isHeadingStyle(style) THEN PARA_TYPES.GHOST_HEADING
              ELSE PARA_TYPES.EMPTY)
        \* Priority 3: TOC entries
        ELSE IF isTOCEntry(style, trimmed) THEN PARA_TYPES.TOC_ENTRY
        \* Priority 4: cover page
        ELSE IF zone = ZONES.COVER \/ isCoverItem(trimmed) THEN PARA_TYPES.COVER_TEXT
        \* Priority 5: captions
        ELSE IF isCaption(trimmed).isCaption THEN PARA_TYPES.CAPTION_TITLE
        \* Priority 6: bibliography zone
        ELSE IF isBibliographyEntry(trimmed, isInBiblio)
        THEN PARA_TYPES.BIBLIOGRAPHY
        \* Priority 7: main heading
        ELSE IF isMainByOutline \/ isMainByText \/ isMainByStyle THEN PARA_TYPES.MAIN_HEADING
        \* Priority 8: sub-heading
        ELSE IF isSubByOutline \/ isSubByText \/ isSubByStyle THEN PARA_TYPES.SUB_HEADING
        \* Priority 9: block quote (significant left indent)
        ELSE IF isBlockQuoteIndent(leftIndent, EBYU_RULES.BLOCK_QUOTE_MIN_INDENT)
        THEN PARA_TYPES.BLOCK_QUOTE
        \* Priority 10: body text
        ELSE IF Len(trimmed) >= 20 THEN PARA_TYPES.BODY_TEXT
        ELSE PARA_TYPES.UNKNOWN

(***************************************************************************)
(* Paragraph type detection of the revision unnamed/part_001: the heading  *)
(* rules ask for a corroborating signal (bold font, heading style, length) *)
(***************************************************************************)
EBYU_RULES_part001 == [MIN_BODY_TEXT_LENGTH |-> 100, BLOCK_QUOTE_MIN_INDENT |-> 28]

\* /^\d+\.$/
MainListNumber == RegExp(TRUE, Cat(<<Plus(Digit), Lit(<<46>>)>>), TRUE, FALSE)

\* /^\d+\.\d+(\.\d+)*\.?$/
SubListNumber ==
    RegExp(TRUE, Cat(<<Plus(Digit), Lit(<<46>>), Plus(Digit),
                       Star(Cat(<<Lit(<<46>>), Plus(Digit)>>)), Opt(Lit(<<46>>))>>), TRUE, FALSE)

\* /^\d+\.\d+(\.\d+)*\.?\s+.+/
subHeadingTextPattern ==
    RegExp(TRUE, Cat(<<Plus(Digit), Lit(<<46>>), Plus(Digit),
                       Star(Cat(<<Lit(<<46>>), Plus(Digit)>>)), Opt(Lit(<<46>>)),
                       Plus(Space), Plus(NotCls({10, 13, 8232, 8233}) (* . *))>>), FALSE, FALSE)

detectParagraphType_part001(paraData, zone, isInBiblio) ==
    LET text == paraData.text
        style == paraData.style
        outlineLevel == paraData.outlineLevel
        tableNestingLevel == paraData.tableNestingLevel
        leftIndent == paraData.leftIndent
        font == paraData.font
        trimmed == Trim(text)
        hasMainListNumber == paraData.listString # <<>>
                               /\ Test(MainListNumber, Trim(paraData.listString))
        isMainByListItem == paraData.isListItem /\ hasMainListNumber /\ font.bold = Bool(TRUE)
        isMainByText == isMainHeadingText(trimmed)
        isMainByStyle == isHeadingStyle(style) /\ isLevelOneStyle(style)
        isMainByOutline == /\ (outlineLevel = Num(0) \/ outlineLevel = Num(1))
                           /\ (font.bold = Bool(TRUE) \/ isHeadingStyle(style))
                           /\ Len(trimmed) < 100
        hasSubListNumber == paraData.listString # <<>>
                              /\ Test(SubListNumber, Trim(paraData.listString))
        isSubByListItem == paraData.isListItem /\ hasSubListNumber /\ font.bold = Bool(TRUE)
        isSubByText == /\ Test(subHeadingTextPattern, trimmed)
                       /\ font.bold = Bool(TRUE)
                       /\ Len(trimmed) < 150
        isSubByStyle == isHeadingStyle(style) /\ ~isMainByStyle
        isSubByOutline == /\ outlineLevel.t = "number" /\ outlineLevel.n >= 2 /\ outlineLevel.n <= 8
                          /\ (font.bold = Bool(TRUE) \/ isHeadingStyle(style))
                          /\ Len(trimmed) < 150
    IN  \* Priority 1: inside table = table content
        IF isTableContent(tableNestingLevel)
        THEN (IF isCaption(trimmed).isCaption THEN PARA_TYPES.CAPTION_TITLE
              ELSE PARA_TYPES.BODY_TEXT)
        \* Priority 2: empty paragraph - check for ghost heading
        ELSE IF Len(trimmed) = 0
        THEN (IF isGhostOutline(outlineLevel) THEN PARA_TYPES.GHOST_HEADING
              ELSE IF isHeadingStyle(style) THEN PARA_TYPES.GHOST_HEADING
              ELSE PARA_TYPES.EMPTY)
        \* Priority 3: TOC entries
        ELSE IF isTOCEntry(style, trimmed) THEN PARA_TYPES.TOC_ENTRY
        \* Priority 4: cover page
        ELSE IF zone = ZONES.COVER \/ isCoverItem(trimmed) THEN PARA_TYPES.COVER_TEXT
        \* Priority 5: captions
        ELSE IF isCaption(trimmed).isCaption THEN PARA_TYPES.CAPTION_TITLE
        \* Priority 6: bibliography zone
        ELSE IF isBibliographyEntry(trimmed, isInBiblio)
        THEN PARA_TYPES.BIBLIOGRAPHY
        \* Priority 7: main heading
        ELSE IF \/ isMainByText \/ isMainByStyle
                \/ (isMainByListItem /\ Len(trimmed) < 100) \/ isMainByOutline
        THEN PARA_TYPES.MAIN_HEADING
        \* Priority 8: sub-heading
        ELSE IF isSubByListItem \/ isSubByText \/ isSubByStyle \/ isSubByOutline
        THEN PARA_TYPES.SUB_HEADING
        \* Priority 9: block quote (significant left indent)
        ELSE IF isBlockQuoteIndent(leftIndent, EBYU_RULES_part001.BLOCK_QUOTE_MIN_INDENT)
        THEN PARA_TYPES.BLOCK_QUOTE
        \* Priority 10: body text
        ELSE IF Len(trimmed) >= 20 THEN PARA_TYPES.BODY_TEXT
        ELSE PARA_TYPES.UNKNOWN

(***************************************************************************)
(* Attribute snapshots (paragraphDataList entries of scanDocument)         *)
(***************************************************************************)
Str(s) == [t |-> "string", s |-> s]

\* A text of n letters "a"
Filler(n) == [j \in 1..n |-> 97]

\* "1.2. " followed by n letters
Numbered(n) == <<49, 46, 50, 46, 32>> \o Filler(n)

Snapshot(text, style, outlineLevel, tableNestingLevel, leftIndent, bold, list) ==
    [text |-> text, style |-> style, outlineLevel |-> outlineLevel,
     tableNestingLevel |-> tableNestingLevel, leftIndent |-> leftIndent,
     font |-> [bold |-> bold],
     isListItem |-> list.isListItem, listString |-> list.listString]

\* isListItem and listString: no numbering, "1.", "1.1."
NoList == [isListItem |-> FALSE, listString |-> <<>>]
MainList == [isListItem |-> TRUE, listString |-> <<49, 46>>]
SubList == [isListItem |-> TRUE, listString |-> <<49, 46, 49, 46>>]

SnapshotProduct(texts, styles, outlines, tables, indents, bolds, lists) ==
    {Snapshot(text, style, ol, tnl, li, b, l) :
        text \in texts, style \in styles, ol \in outlines, tnl \in tables,
        li \in indents, b \in bolds, l \in lists}

tGIRIS == <<71, 304, 82, 304, 350>>  \* "GİRİŞ"
tKAYNAKCA == <<75, 65, 89, 78, 65, 75, 199, 65>>  \* "KAYNAKÇA"
tREFERENCES == <<82, 69, 70, 69, 82, 69, 78, 67, 69, 83>>  \* "REFERENCES"
tOZET == <<214, 90, 69, 84>>  \* "ÖZET"
tTC == <<84, 46, 67, 46>>  \* "T.C."
tCaption == <<84, 97, 98, 108, 111, 32, 49, 46, 49, 58, 32, 83, 111, 110, 117, 231, 108, 97, 114>>  \* "Tablo 1.1: Sonuçlar"
tSub == <<49, 46, 50, 46, 32, 65, 114, 97, 351, 116, 305, 114, 109, 97, 110, 305, 110, 32, 214, 110, 101, 109, 105>>  \* "1.2. Araştırmanın Önemi"
tEntry == <<83, 109, 105, 116, 104, 44, 32, 74, 46, 32, 40, 50, 48, 50, 48, 41, 46, 32, 84, 105, 116, 108, 101, 46, 32, 80, 117, 98, 108, 105, 115, 104, 101, 114, 46>>  \* "Smith, J. (2020). Title. Publisher."
tDanisman == <<68, 65, 78, 73, 350, 77, 65, 78, 58, 32, 68, 114, 46, 32, 65>>  \* "DANIŞMAN: Dr. A"

sHeading1 == <<72, 101, 97, 100, 105, 110, 103, 32, 49>>  \* "Heading 1"
sHeading2 == <<72, 101, 97, 100, 105, 110, 103, 32, 50>>  \* "Heading 2"
sTOC1 == <<84, 79, 67, 32, 49>>  \* "TOC 1"

\* Texts of at most 35 characters: every rule of the chain has a text that
\* reaches it, and the lengths 5, 6, 19, 20 sit on the two length thresholds
ShortTexts ==
    {<<>>, <<32, 9, 32>>, tGIRIS, <<32>> \o tKAYNAKCA \o <<32>>, tREFERENCES, tTC, tCaption,
     tSub,
     <<49, 46, 50, 46, 32, 50, 48, 50, 48, 32, 121, 305, 108, 305>> (* "1.2. 2020 yılı" *),
     <<49, 46, 50, 46, 32, 65, 114, 97, 351, 116, 305, 114, 109, 97, 110, 305, 110, 32, 214, 110, 101, 109, 105, 32, 46, 46, 46, 46, 46, 46, 46, 46, 32, 53>> (* "1.2. Araştırmanın Önemi ........ 5" *),
     tEntry, tDanisman, Filler(5), Filler(6), Filler(19), Filler(20)}

Snapshots ==
    \* every text with every style, outline level, font weight and numbering
    SnapshotProduct(ShortTexts, {<<>>, sHeading1, sHeading2, sTOC1}, {Undefined, Num(0), Num(2), Num(9)}, {0},
                    {Undefined}, {Bool(TRUE), Undefined}, {NoList, MainList, SubList})
    \* paragraphs inside a table
    \cup SnapshotProduct(ShortTexts, {<<>>, sHeading1}, {Undefined, Num(0)}, {1, 2},
                         {Undefined}, {Bool(TRUE)}, {NoList})
    \* left indents around the two block-quote thresholds
    \cup SnapshotProduct(ShortTexts, {<<>>}, {Undefined, Num(2)}, {0},
                         {Null, Num(0), Num(19), Num(20), Num(27), Num(28)},
                         {Bool(TRUE), Bool(FALSE), Undefined}, {NoList})
    \* the other outline levels: null, the last heading level, a string
    \cup SnapshotProduct(ShortTexts, {<<>>, sHeading2}, {Null, Num(1), Num(8), Str(<<49>>)}, {0},
                         {Undefined}, {Bool(TRUE), Bool(FALSE)}, {NoList})
    \* long texts
    \cup SnapshotProduct({Filler(80), Numbered(144), Numbered(145)}, {<<>>}, {Undefined, Num(2)}, {0},
                         {Undefined, Num(36)}, {Bool(TRUE), Undefined}, {NoList})

\* The values of the paragraph-type enumeration
ParaTypeSet ==
    {"TOC_ENTRY", "MAIN_HEADING", "SUB_HEADING", "BODY_TEXT", "BLOCK_QUOTE",
     "BIBLIOGRAPHY", "CAPTION_TITLE", "EPIGRAPH", "LIST_ITEM", "GHOST_HEADING",
     "FRONT_MATTER", "COVER_TEXT", "EMPTY", "UNKNOWN"}

(***************************************************************************)
(* Rule checks of the paragraph types                                      *)
(***************************************************************************)
\* The rules the checks compare with, in hundredths of a point
EBYU_RULES_x100 ==
    [FONT_SIZE_BODY |-> 1200, FONT_SIZE_HEADING_MAIN |-> 1400, FONT_SIZE_HEADING_SUB |-> 1200,
     FONT_SIZE_BLOCK_QUOTE |-> 1100, FONT_SIZE_CAPTION_TITLE |-> 1200,
     FONT_SIZE_COVER_TITLE |-> 1600,
     FIRST_LINE_INDENT_POINTS |-> 3540, BLOCK_QUOTE_INDENT_POINTS |-> 3540,
     BIBLIOGRAPHY_HANGING_INDENT_POINTS |-> 2835, INDENT_TOLERANCE |-> 250,
     SPACING_6NK |-> 600, SPACING_3NK |-> 300, SPACING_TOLERANCE |-> 150,
     LINE_SPACING_1_5_MIN |-> 1500, LINE_SPACING_1_5_MAX |-> 2200,
     LINE_SPACING_SINGLE_MIN |-> 1000, LINE_SPACING_SINGLE_MAX |-> 1400,
     MARGIN_POINTS |-> 8505, MARGIN_TOP_SPECIAL_POINTS |-> 19845, MARGIN_TOLERANCE |-> 250,
     PAGE_NUMBER_FOOTER_DISTANCE_POINTS |-> 3540, TABLE_CONTENT_SIZE |-> 1100]

\* EBYU_RULES.FONT_NAME
FONT_NAME == <<84, 105, 109, 101, 115, 32, 78, 101, 119, 32, 82, 111, 109, 97, 110>>  \* "Times New Roman"

\* ToNumber of undefined is NaN, and every comparison with NaN is false
IsNaN(v) == v.t = "undefined"

\* ToNumber of null or of a number, in hundredths
Hundredths(v) == IF v.t = "number" THEN 100 * v.n ELSE 0

Abs(x) == IF x < 0 THEN 0 - x ELSE x

\* Math.abs(v - target) > tolerance
AbsDiffExceeds(v, target, tolerance) ==
    ~IsNaN(v) /\ Abs(Hundredths(v) - target) > tolerance

\* v < bound, v > bound
LessThan(v, bound) == ~IsNaN(v) /\ Hundredths(v) < bound
GreaterThan(v, bound) == ~IsNaN(v) /\ Hundredths(v) > bound

\* font.name && font.name !== EBYU_RULES.FONT_NAME
WrongFontName(name) == name.t = "string" /\ name.s # <<>> /\ name.s # FONT_NAME

\* font.size && Math.abs(font.size - size) > 0.5
WrongFontSize(fontSize, size) == Truthy(fontSize) /\ AbsDiffExceeds(fontSize, size, 50)

isCentered(alignment) ==
    IF alignment.t \in {"undefined", "null"} THEN TRUE
    ELSE IF alignment.t = "string"
    THEN ToLowerCase(alignment.s) = <<99, 101, 110, 116, 101, 114, 101, 100>> (* "centered" *)
    ELSE IF alignment.t = "number" THEN alignment.n = 2
    ELSE FALSE

\* errors.push({type, title, paraIndex: index, severity}) under a condition
Push(condition, type, title, index, severity) ==
    IF condition
    THEN <<[type |-> type, title |-> title, paraIndex |-> Num(index), severity |-> severity]>>
    ELSE <<>>

\* /^(GİRİŞ|SONUÇ|...|EKLER?)$/i
isSpecialHeading ==
    RegExp(TRUE, Alt(<<Lit(<<71, 304, 82, 304, 350>> (* "GİRİŞ" *)),
                   Lit(<<83, 79, 78, 85, 199>> (* "SONUÇ" *)),
                   Lit(<<83, 79, 78, 85, 199, 32, 86, 69, 32, 214, 78, 69, 82, 304, 76, 69, 82>> (* "SONUÇ VE ÖNERİLER" *)),
                   Lit(<<84, 65, 82, 84, 73, 350, 77, 65>> (* "TARTIŞMA" *)),
                   Lit(<<75, 65, 89, 78, 65, 75, 199, 65>> (* "KAYNAKÇA" *)),
                   Lit(<<75, 65, 89, 78, 65, 75, 76, 65, 82>> (* "KAYNAKLAR" *)),
                   Lit(<<214, 90, 69, 84>> (* "ÖZET" *)),
                   Lit(<<65, 66, 83, 84, 82, 65, 67, 84>> (* "ABSTRACT" *)),
                   Lit(<<83, 85, 77, 77, 65, 82, 89>> (* "SUMMARY" *)),
                   Cat(<<Lit(<<214, 78>> (* "ÖN" *)), Star(Space), Lit(<<83, 214, 90>> (* "SÖZ" *))>>),
                   Lit(<<304, 199, 304, 78, 68, 69, 75, 304, 76, 69, 82>> (* "İÇİNDEKİLER" *)),
                   Lit(<<75, 73, 83, 65, 76, 84, 77, 65, 76, 65, 82>> (* "KISALTMALAR" *)),
                   Lit(<<84, 65, 66, 76, 79, 76, 65, 82>> (* "TABLOLAR" *)),
                   Lit(<<350, 69, 75, 304, 76, 76, 69, 82>> (* "ŞEKİLLER" *)),
                   Lit(<<71, 82, 65, 70, 304, 75, 76, 69, 82>> (* "GRAFİKLER" *)),
                   Lit(<<83, 304, 77, 71, 69, 76, 69, 82>> (* "SİMGELER" *)),
                   Cat(<<Lit(<<69, 75, 76, 69>> (* "EKLE" *)), Opt(Lit(<<82>> (* "R" *)))>>)>>), TRUE, TRUE)

\* /^\d+\.?$/
mainHeadingPattern == RegExp(TRUE, Cat(<<Plus(Digit), Opt(Lit(<<46>>))>>), TRUE, FALSE)

\* The numbering checks of a heading whose listString is to match `pattern`
validateNumbering(paraData, index, pattern, title) ==
    LET cleanListString == Trim(paraData.listString)
    IN  IF ~paraData.isListItem
        THEN Push(TRUE, "error", title \o ": Numaralandirilmamis", index, "CRITICAL")
        ELSE IF cleanListString = <<>>
        THEN Push(TRUE, "error", title \o ": Numaralandirma Eksik", index, "CRITICAL")
        ELSE Push(~Test(pattern, cleanListString), "warning",
                  title \o ": Numaralandirma Formati", index, "FORMAT")

validateMainHeading(paraData, index) ==
    LET font == paraData.font
    IN  (IF Test(isSpecialHeading, Trim(paraData.text)) THEN <<>>
         ELSE validateNumbering(paraData, index, mainHeadingPattern, "Ana Baslik"))
        \* Font size: 14pt
        \o Push(WrongFontSize(font.size, EBYU_RULES_x100.FONT_SIZE_HEADING_MAIN),
                "warning", "Ana Baslik: Punto Hatasi", index, "FORMAT")
        \* Bold
        \o Push(font.bold # Bool(TRUE), "warning", "Ana Baslik: Kalin Yazi", index, "FORMAT")
        \* Centered
        \o Push(~isCentered(paraData.alignment), "warning", "Ana Baslik: Hizalama", index, "FORMAT")
        \* Font name
        \o Push(WrongFontName(font.name), "error", "Ana Baslik: Yazi Tipi", index, "CRITICAL")

validateSubHeading(paraData, index) ==
    LET font == paraData.font
    IN  validateNumbering(paraData, index, SubListNumber, "Alt Baslik")
        \o Push(WrongFontSize(font.size, EBYU_RULES_x100.FONT_SIZE_HEADING_SUB),
                "warning", "Alt Baslik: Punto Hatasi", index, "FORMAT")
        \o Push(font.bold # Bool(TRUE), "warning", "Alt Baslik: Kalin Yazi", index, "FORMAT")
        \o Push(WrongFontName(font.name), "error", "Alt Baslik: Yazi Tipi", index, "CRITICAL")

\* /^\s{2,}/
leadingSpaces == RegExp(TRUE, Rep(Space, 2), FALSE, FALSE)

validateBodyText(paraData, index) ==
    LET font == paraData.font
        text == paraData.text
        leftIndent == paraData.leftIndent
    IN  \* Skip short paragraphs
        IF Len(Trim(text)) < EBYU_RULES.MIN_BODY_TEXT_LENGTH THEN <<>>
        ELSE
        (IF text = <<>> THEN <<>>
         ELSE IF StartsWith(text, <<9>>)
         THEN Push(TRUE, "warning", "UYARI: Manuel Tab Kullanmayin", index, "FORMAT")
         ELSE Push(Test(leadingSpaces, text), "warning",
                   "UYARI: Manuel Bosluk Kullanmayin", index, "FORMAT"))
        \o Push(WrongFontName(font.name), "error", "Metin: Yazi Tipi", index, "CRITICAL")
        \o Push(WrongFontSize(font.size, EBYU_RULES_x100.FONT_SIZE_BODY),
                "warning", "Metin: Punto Hatasi", index, "FORMAT")
        \o Push(/\ paraData.firstLineIndent # Undefined
                /\ AbsDiffExceeds(paraData.firstLineIndent,
                                  EBYU_RULES_x100.FIRST_LINE_INDENT_POINTS,
                                  EBYU_RULES_x100.INDENT_TOLERANCE),
                "warning", "Metin: Ilk Satir Girintisi", index, "FORMAT")
        \o Push(/\ paraData.lineSpacing # Undefined /\ paraData.lineSpacing # Null
                /\ (\/ LessThan(paraData.lineSpacing, EBYU_RULES_x100.LINE_SPACING_1_5_MIN)
                    \/ GreaterThan(paraData.lineSpacing, EBYU_RULES_x100.LINE_SPACING_1_5_MAX)),
                "warning", "Metin: Satir Araligi", index, "FORMAT")
        \o Push(/\ paraData.spaceBefore # Undefined /\ paraData.spaceBefore # Null
                /\ AbsDiffExceeds(paraData.spaceBefore, EBYU_RULES_x100.SPACING_6NK,
                                  EBYU_RULES_x100.SPACING_TOLERANCE),
                "warning", "Metin: Paragraf Oncesi", index, "FORMAT")
        \o Push(/\ paraData.spaceAfter # Undefined /\ paraData.spaceAfter # Null
                /\ AbsDiffExceeds(paraData.spaceAfter, EBYU_RULES_x100.SPACING_6NK,
                                  EBYU_RULES_x100.SPACING_TOLERANCE),
                "warning", "Metin: Paragraf Sonrasi", index, "FORMAT")
        \o Push(/\ leftIndent # Undefined /\ leftIndent # Null
                /\ ~LessThan(leftIndent, 100 * EBYU_RULES.BLOCK_QUOTE_MIN_INDENT),
                "warning", "Metin: Blok Girinti Tespit Edildi", index, "FORMAT")

\* A ghost heading reported as a formatting warning
validateGhostHeadingAsFormat(paraData_, index) ==
    <<[type |-> "warning", title |-> "BOS BASLIK (Ghost Heading) - KRITIK!",
       paraIndex |-> Num(index), severity |-> "FORMAT"]>>

validateGhostHeading(paraData_, index) ==
    <<[type |-> "error", title |-> "BOS BASLIK (Ghost Heading) - KRITIK!",
       paraIndex |-> Num(index), severity |-> "CRITICAL"]>>

\* leftIndent - firstLineIndent: NaN when one of them is undefined
hangingIndent(leftIndent, firstLineIndent) ==
    IF IsNaN(leftIndent) \/ IsNaN(firstLineIndent) THEN NaN
    ELSE [t |-> "hundredths", n |-> Hundredths(leftIndent) - Hundredths(firstLineIndent)]

\* The exception of null.toFixed(1), as the errors of a validator that throws
TypeError ==
    <<[type |-> "throw", title |-> "TypeError", paraIndex |-> Null, severity |-> ""]>>

\* A null lineSpacing is below the minimum and a null spaceBefore is 3 away
\* from 3 nk: the description of either error calls toFixed on null
validateBibliography(paraData, index) ==
    LET font == paraData.font
        hanging == hangingIndent(paraData.leftIndent, paraData.firstLineIndent)
    IN  IF paraData.lineSpacing = Null \/ paraData.spaceBefore = Null THEN TypeError
        ELSE
        Push(WrongFontName(font.name), "error", "Kaynakca: Yazi Tipi", index, "CRITICAL")
        \o Push(WrongFontSize(font.size, EBYU_RULES_x100.FONT_SIZE_BODY),
                "warning", "Kaynakca: Punto", index, "FORMAT")
        \* Hanging indent
        \o Push(/\ hanging # NaN
                /\ Abs(hanging.n - EBYU_RULES_x100.BIBLIOGRAPHY_HANGING_INDENT_POINTS)
                      > EBYU_RULES_x100.INDENT_TOLERANCE,
                "warning", "Kaynakca: Asili Girinti", index, "FORMAT")
        \o Push(/\ paraData.lineSpacing # Undefined
                /\ (\/ LessThan(paraData.lineSpacing, EBYU_RULES_x100.LINE_SPACING_SINGLE_MIN)
                    \/ GreaterThan(paraData.lineSpacing, EBYU_RULES_x100.LINE_SPACING_SINGLE_MAX)),
                "warning", "Kaynakca: Satir Araligi", index, "FORMAT")
        \o Push(/\ paraData.spaceBefore # Undefined
                /\ AbsDiffExceeds(paraData.spaceBefore, EBYU_RULES_x100.SPACING_3NK,
                                  EBYU_RULES_x100.SPACING_TOLERANCE),
                "warning", "Kaynakca: Paragraf Oncesi", index, "FORMAT")

validateBlockQuote(paraData, index) ==
    LET font == paraData.font
    IN  Push(WrongFontSize(font.size, EBYU_RULES_x100.FONT_SIZE_BLOCK_QUOTE),
             "warning", "Blok Alinti: Punto", index, "FORMAT")
        \o Push(font.italic # Bool(TRUE), "warning", "Blok Alinti: Italik", index, "FORMAT")
        \o Push(/\ paraData.leftIndent # Undefined
                /\ AbsDiffExceeds(paraData.leftIndent,
                                  EBYU_RULES_x100.BLOCK_QUOTE_INDENT_POINTS,
                                  EBYU_RULES_x100.INDENT_TOLERANCE),
                "warning", "Blok Alinti: Sol Girinti", index, "FORMAT")
        \o Push(/\ paraData.rightIndent # Undefined
                /\ AbsDiffExceeds(paraData.rightIndent,
                                  EBYU_RULES_x100.BLOCK_QUOTE_INDENT_POINTS,
                                  EBYU_RULES_x100.INDENT_TOLERANCE),
                "warning", "Blok Alinti: Sag Girinti", index, "FORMAT")

validateCaption(paraData, index) ==
    Push(WrongFontSize(paraData.font.size, EBYU_RULES_x100.FONT_SIZE_CAPTION_TITLE),
         "warning", "Baslik: Punto", index, "FORMAT")
    \o Push(~isCentered(paraData.alignment), "warning", "Baslik: Hizalama", index, "FORMAT")
    \o Push(/\ paraData.spaceBefore # Undefined
            /\ GreaterThan(paraData.spaceBefore, EBYU_RULES_x100.SPACING_TOLERANCE),
            "warning", "Tablo/Sekil Basligi: Paragraf Oncesi", index, "FORMAT")
    \o Push(/\ paraData.spaceAfter # Undefined
            /\ GreaterThan(paraData.spaceAfter, EBYU_RULES_x100.SPACING_TOLERANCE),
            "warning", "Tablo/Sekil Basligi: Paragraf Sonrasi", index, "FORMAT")

\* /^(T\.?C\.?|ERZİNCAN|ÜNİVERSİTESİ|ENSTİTÜSÜ|TEZİ)$/i
mainCoverTitle ==
    RegExp(TRUE, Alt(<<Cat(<<Lit(<<84>>), Opt(Lit(<<46>>)), Lit(<<67>>), Opt(Lit(<<46>>))>>),
                   Lit(<<69, 82, 90, 304, 78, 67, 65, 78>> (* "ERZİNCAN" *)),
                   Lit(<<220, 78, 304, 86, 69, 82, 83, 304, 84, 69, 83, 304>> (* "ÜNİVERSİTESİ" *)),
                   Lit(<<69, 78, 83, 84, 304, 84, 220, 83, 220>> (* "ENSTİTÜSÜ" *)),
                   Lit(<<84, 69, 90, 304>> (* "TEZİ" *))>>), TRUE, TRUE)

validateCoverPage(paraData, index) ==
    LET font == paraData.font
        trimmed == Trim(paraData.text)
        isMainCoverTitle == Test(mainCoverTitle, trimmed) \/ Len(trimmed) > 20
    IN  IF Len(trimmed) = 0 THEN <<>>
        ELSE
        Push(/\ isMainCoverTitle /\ Truthy(font.size)
             /\ AbsDiffExceeds(font.size, EBYU_RULES_x100.FONT_SIZE_COVER_TITLE, 100),
             "error", "KAPAK: Punto Hatasi", index, "CRITICAL")
        \o Push(~isCentered(paraData.alignment), "warning", "KAPAK: Hizalama", index, "FORMAT")
        \o Push(/\ paraData.spaceBefore # Undefined
                /\ GreaterThan(paraData.spaceBefore, EBYU_RULES_x100.SPACING_TOLERANCE),
                "warning", "KAPAK: Paragraf Oncesi Bosluk", index, "FORMAT")
        \o Push(/\ paraData.spaceAfter # Undefined
                /\ GreaterThan(paraData.spaceAfter, EBYU_RULES_x100.SPACING_TOLERANCE),
                "warning", "KAPAK: Paragraf Sonrasi Bosluk", index, "FORMAT")
        \o Push(WrongFontName(font.name), "error", "KAPAK: Yazi Tipi", index, "CRITICAL")

(***************************************************************************)
(* State                                                                   *)
(***************************************************************************)
VARIABLES
    scans,             \* number of calls of scanDocument that started a scan
    isScanning,        \* global isScanning
    lastCall,          \* how the last call of scanDocument began: "started" a scan,
                       \* or "ignored" because one was running; "none" before any
    validationResults, \* global validationResults: the findings
    zoneSwitches,      \* number of 'ZONE' entries of the global scanLog
    pc,                \* where scanDocument stands: "idle", or awaiting the host at
                       \* "clear", "tables", "images", "pageNumbers", "highlight",
                       \* or in the "loop" over the paragraphs
    paragraphDataList, \* local paragraphDataList of scanDocument
    i,                 \* loop index of the zone-based validation
    currentZone,       \* local currentZone of scanDocument
    isInBiblio,        \* local isInBiblio of scanDocument
    ghostCount,        \* local ghostCount
    errorCount,        \* local errorCount
    warningCount,      \* local warningCount
    paraData,          \* paragraphDataList[i - 1], the paragraph handled last
    paraType,          \* the type detectParagraphType gave it
    highlightColor,    \* what was written to its font.highlightColor, or "none"
    marginErrors,      \* local marginErrors of scanDocument
    tableErrors,       \* local tableErrors
    imageErrors,       \* local imageErrors
    pageNumErrors,     \* local pageNumErrors
    sectionCount,      \* sections.items.length of the local sections
    cPara,             \* argument paraData of a call of detectParagraphType
    cZone,             \* argument zone
    cBiblio,           \* argument isInBiblio
    cType,             \* its result in taskpane.js
    cType1             \* its result in the revision unnamed/part_001

scanVars == <<scans, isScanning, lastCall, validationResults, zoneSwitches, pc, paragraphDataList, i,
              currentZone, isInBiblio, ghostCount, errorCount, warningCount,
              paraData, paraType, highlightColor,
              marginErrors, tableErrors, imageErrors, pageNumErrors, sectionCount>>

callVars == <<cPara, cZone, cBiblio, cType, cType1>>

vars == <<scans, isScanning, lastCall, validationResults, zoneSwitches, pc, paragraphDataList, i,
          currentZone, isInBiblio, ghostCount, errorCount, warningCount, highlightColor,
          paraData, paraType, marginErrors, tableErrors, imageErrors, pageNumErrors, sectionCount,
          cPara, cZone, cBiblio, cType, cType1>>

NoPara == Snapshot(<<>>, <<>>, Undefined, 0, Undefined, Undefined, NoList)

\* The state before any scan: the add-in is loaded, nothing runs
ScanIdle ==
    /\ scans = 0
    /\ isScanning = FALSE
    /\ lastCall = "none"
    /\ validationResults = <<>>
    /\ zoneSwitches = 0
    /\ pc = "idle"
    /\ paragraphDataList = <<>>
    /\ i = 0
    /\ currentZone = ZONES.COVER
    /\ isInBiblio = FALSE
    /\ ghostCount = 0
    /\ errorCount = 0
    /\ warningCount = 0
    /\ paraData = NoPara
    /\ paraType = "none"
    /\ highlightColor = "none"
    /\ marginErrors = <<>>
    /\ tableErrors = <<>>
    /\ imageErrors = <<>>
    /\ pageNumErrors = <<>>
    /\ sectionCount = 0

NoCall ==
    /\ cPara = NoPara
    /\ cZone = ZONES.COVER
    /\ cBiblio = FALSE
    /\ cType = "none"
    /\ cType1 = "none"

(***************************************************************************)
(* The classifier as a pure function: one call on any snapshot, zone and   *)
(* bibliography flag                                                       *)
(***************************************************************************)
ClassifyInit ==
    /\ ScanIdle
    /\ cPara \in Snapshots
    \* the zones scanDocument sets, each without the bibliography flag, and
    \* the two it is in when the flag is set
    /\ \E zf \in ({ZONES.COVER, ZONES.FRONT_MATTER, ZONES.BODY, ZONES.BACK_MATTER} \X {FALSE})
                    \cup ({ZONES.BODY, ZONES.BACK_MATTER} \X {TRUE}) :
           cZone = zf[1] /\ cBiblio = zf[2]
    /\ cType = "none"
    /\ cType1 = "none"

Classify ==
    /\ cType = "none"
    /\ cType' = detectParagraphType(cPara, cZone, cBiblio)
    /\ cType1' = detectParagraphType_part001(cPara, cZone, cBiblio)
    /\ UNCHANGED <<cPara, cZone, cBiblio>>
    /\ UNCHANGED scanVars

SpecClassify == ClassifyInit /\ [][Classify]_vars

(***************************************************************************)
(* scanDocument                                                            *)
(***************************************************************************)
\* Longest document of the model
MaxParagraphs == 16

\* Number of scans in a run of the add-in
MaxScans == 2

\* Cover is only the first 15 paragraphs
CoverParagraphs == 15

tABSTRACT == <<65, 66, 83, 84, 82, 65, 67, 84>> (* "ABSTRACT" *)

\* Paragraphs of the scanned documents
ScanTexts ==
    {<<>>, tGIRIS, tKAYNAKCA, tREFERENCES, tOZET, tTC, tEntry, <<69, 75, 76, 69, 82>> (* "EKLER" *), tABSTRACT,
     <<214, 90, 69, 84, 58, 32, 107, 305, 115, 97>> (* "ÖZET: kısa" *),
     <<246, 110, 115, 246, 122>> (* "önsöz" *)}

ScanParagraphs ==
    SnapshotProduct(ScanTexts, {<<>>, sTOC1}, {Undefined}, {0, 1},
                    {Undefined}, {Bool(TRUE)}, {NoList})
    \* an empty paragraph with a heading outline level
    \cup SnapshotProduct({<<>>}, {<<>>}, {Num(0)}, {0}, {Undefined}, {Undefined}, {NoList})

\* The same paragraphs with no style and outside tables
ZoneParagraphs ==
    {p \in ScanParagraphs : p.style = <<>> /\ p.tableNestingLevel = 0}

(***************************************************************************)
(* The scanned documents                                                   *)
(***************************************************************************)
\* The formatting attributes of a paragraph that only the rule checks read
Format(name, size, italic, alignment, firstLineIndent, rightIndent, lineSpacing, spaceBefore, spaceAfter) ==
    [name |-> name, size |-> size, italic |-> italic, alignment |-> alignment,
     firstLineIndent |-> firstLineIndent, rightIndent |-> rightIndent,
     lineSpacing |-> lineSpacing, spaceBefore |-> spaceBefore, spaceAfter |-> spaceAfter]

\* The host gives no value for any attribute
FormatUndefined ==
    Format(Undefined, Undefined, Undefined, Undefined, Undefined, Undefined, Undefined,
           Undefined, Undefined)

\* The host gives null (mixed formatting) for every attribute
FormatNull == Format(Null, Null, Null, Null, Null, Null, Null, Null, Null)

\* Times New Roman 12 pt, justified, first line 35 pt, line spacing 18 pt,
\* 6 pt before and after
FormatBody ==
    Format(Str(FONT_NAME), Num(12), Bool(FALSE), Str(<<74, 117, 115, 116, 105, 102, 105, 101, 100>> (* "Justified" *)),
           Num(35), Num(0), Num(18), Num(6), Num(6))

\* Arial 10 pt, left aligned, no first-line indent, line spacing 30 pt,
\* 12 pt before and after
FormatWrong ==
    Format(Str(<<65, 114, 105, 97, 108>> (* "Arial" *)), Num(10), Bool(FALSE), Str(<<76, 101, 102, 116>> (* "Left" *)),
           Num(0), Num(0), Num(30), Num(12), Num(12))

Formats == {FormatUndefined, FormatNull, FormatBody, FormatWrong}

\* An entry of paragraphDataList: the attributes the classifier reads, the
\* attributes only the rule checks read, and the reference to the paragraph
\* of the host, which takes the write of font.highlightColor or rejects it
Item(p, format, rejects) ==
    [data |-> p, format |-> format, paragraph |-> [rejectsHighlight |-> rejects]]

\* The entry as the rule checks read it
ParaData(item) ==
    [text |-> item.data.text, style |-> item.data.style,
     outlineLevel |-> item.data.outlineLevel,
     tableNestingLevel |-> item.data.tableNestingLevel,
     font |-> [name |-> item.format.name, size |-> item.format.size,
               bold |-> item.data.font.bold, italic |-> item.format.italic],
     alignment |-> item.format.alignment,
     firstLineIndent |-> item.format.firstLineIndent,
     leftIndent |-> item.data.leftIndent,
     rightIndent |-> item.format.rightIndent,
     lineSpacing |-> item.format.lineSpacing,
     spaceBefore |-> item.format.spaceBefore,
     spaceAfter |-> item.format.spaceAfter,
     isListItem |-> item.data.isListItem, listString |-> item.data.listString]

Plain(text) ==
    Item(Snapshot(text, <<>>, Undefined, 0, Undefined, Bool(TRUE), NoList),
         FormatUndefined, FALSE)

\* Paragraphs of the body: an entry, a sub-heading, a caption, a block quote,
\* and a heading and an entry whose font weight the host does not give
BodyParagraphs ==
    SnapshotProduct({tEntry, tSub, tCaption, Filler(20)}, {<<>>}, {Undefined}, {0},
                    {Undefined}, {Bool(TRUE)}, {NoList, SubList})
    \cup SnapshotProduct({tEntry}, {<<>>}, {Undefined}, {0}, {Num(36)}, {Bool(FALSE)}, {NoList})
    \cup SnapshotProduct({tREFERENCES, tEntry, Filler(6)}, {<<>>}, {Undefined, Num(0)}, {0},
                         {Undefined}, {Undefined}, {NoList, MainList})

Documents ==
    {<<>>}
    \* one paragraph, with every formatting
    \cup {<<Item(p, f, FALSE)>> : p \in ScanParagraphs, f \in Formats}
    \* two paragraphs
    \cup {<<Item(p, FormatUndefined, FALSE), Item(q, FormatUndefined, FALSE)>> :
             p \in ZoneParagraphs, q \in ZoneParagraphs}
    \* a bibliography heading, any paragraph, and an entry
    \cup {<<Plain(tKAYNAKCA), Plain(p.text), Plain(tEntry)>> : p \in ZoneParagraphs}
    \* a paragraph of the body, with every formatting
    \cup {<<Plain(tGIRIS), Item(p, f, FALSE)>> : p \in BodyParagraphs, f \in Formats}
    \* an entry of the bibliography, with every formatting
    \cup {<<Plain(tKAYNAKCA), Item(Plain(tEntry).data, f, FALSE)>> : f \in Formats}
    \* the host rejects the highlight of the first paragraph
    \cup {<<Item(p, FormatWrong, TRUE), Item(Plain(tEntry).data, FormatWrong, FALSE)>> :
             p \in ZoneParagraphs}
    \* cover lines up to the last paragraph
    \cup {[k \in 1..n |-> Plain(tTC)] \o <<Plain(p.text)>> :
             n \in {CoverParagraphs, MaxParagraphs - 1}, p \in ZoneParagraphs}

\* paragraphDataList[idx], with the reading order reversed
ParagraphFromEnd(list, idx) == list[Len(list) - idx]

\* paragraphDataList[idx]
ParagraphAt(list, idx) == list[idx + 1]

\* A loop iteration without zone switching
NoZoneSwitch(zone, biblio, text, idx) == [zone |-> zone, biblio |-> biblio, switches |-> 0]

\* Zone switching in which ÖZET goes on from the front matter to the abstract
ZoneSwitchToAbstract(zone, biblio, text, idx) ==
    IF zone = ZONES.COVER /\ matchesAnyPattern(text, PATTERNS.FRONT_MATTER_IDENTIFIERS)
    THEN [zone |-> ZONES.ABSTRACT_TR, biblio |-> biblio, switches |-> 2]
    ELSE [zone |-> zone, biblio |-> biblio, switches |-> 0]

\* Zone switching of one loop iteration: the zone and the bibliography flag
\* after the paragraph at index idx with trimmed text `text`, and the number
\* of switches made (each one is logged)
ZoneSwitch(zone, biblio, text, idx) ==
    LET textUpper == ToUpperCase(text)
        \* Cover ends at ÖZET, İÇİNDEKİLER, ÖNSÖZ, or after 15 paragraphs
        front == zone = ZONES.COVER
                 /\ (\/ textUpper = <<214, 90, 69, 84>> (* "ÖZET" *)
                     \/ StartsWith(textUpper, <<214, 90, 69, 84>> (* "ÖZET" *))
                     \/ textUpper = <<214, 78, 83, 214, 90>> (* "ÖNSÖZ" *)
                     \/ StartsWith(textUpper, <<214, 78, 83, 214, 90>> (* "ÖNSÖZ" *))
                     \/ matchesAnyPattern(text, PATTERNS.FRONT_MATTER_IDENTIFIERS)
                     \/ idx >= CoverParagraphs)
        z1 == IF front THEN ZONES.FRONT_MATTER ELSE zone
        \* Body starts with GİRİŞ
        body == matchesAnyPattern(text, PATTERNS.BODY_START)
        z2 == IF body THEN ZONES.BODY ELSE z1
        \* Back matter starts with KAYNAKÇA
        back == matchesAnyPattern(text, PATTERNS.BACK_MATTER_START)
    IN  [zone |-> IF back THEN ZONES.BACK_MATTER ELSE z2,
         biblio |-> IF back THEN TRUE ELSE biblio,
         switches |-> (IF front THEN 1 ELSE 0) + (IF body THEN 1 ELSE 0)
                        + (IF back THEN 1 ELSE 0)]

\* addResult; "" stands for a severity that is not given
addResult(results, type, title, paraIndex, severity) ==
    Append(results,
           [type |-> type, title |-> title, paraIndex |-> paraIndex,
            severity |-> IF severity # "" THEN severity
                         ELSE IF type = "error" THEN "CRITICAL" ELSE "FORMAT"])

\* A switch whose default case reports too
validateEveryType(type, paraData_, index) == validateGhostHeading(paraData_, index)

\* switch (paraType): the errors of the paragraph at `index`
validate(type, paraData_, index) ==
    CASE type = PARA_TYPES.GHOST_HEADING -> validateGhostHeading(paraData_, index)
      [] type = PARA_TYPES.MAIN_HEADING -> validateMainHeading(paraData_, index)
      [] type = PARA_TYPES.SUB_HEADING -> validateSubHeading(paraData_, index)
      [] type = PARA_TYPES.BODY_TEXT -> validateBodyText(paraData_, index)
      [] type = PARA_TYPES.BLOCK_QUOTE -> validateBlockQuote(paraData_, index)
      [] type = PARA_TYPES.BIBLIOGRAPHY -> validateBibliography(paraData_, index)
      [] type = PARA_TYPES.CAPTION_TITLE -> validateCaption(paraData_, index)
      [] type = PARA_TYPES.COVER_TEXT -> validateCoverPage(paraData_, index)
      [] OTHER -> <<>>

\* hasCriticalError ? HIGHLIGHT_COLORS.CRITICAL : HIGHLIGHT_COLORS.FORMAT
highlightOf(errors) ==
    IF \E k \in DOMAIN errors : errors[k].severity = "CRITICAL" \/ errors[k].type = "error"
    THEN HIGHLIGHT_COLORS.CRITICAL
    ELSE HIGHLIGHT_COLORS.FORMAT

\* for (const err of errors) addResult(...)
RECURSIVE addResults(_, _)
addResults(results, errors) ==
    IF errors = <<>> THEN results
    ELSE addResults(addResult(results, Head(errors).type, Head(errors).title,
                              Head(errors).paraIndex, Head(errors).severity),
                    Tail(errors))

CountType(errors, type) == Cardinality({k \in DOMAIN errors : errors[k].type = type})


\* errors.push({type, title, severity}) under a condition: a finding about
\* the document, not about a paragraph
Found(condition, type, title) ==
    IF condition
    THEN <<[type |-> type, title |-> title, paraIndex |-> Null,
            severity |-> IF type = "error" THEN "CRITICAL" ELSE "FORMAT"]>>
    ELSE <<>>

\* The errors pushed in a loop over items, in the order of the items
RECURSIVE Concat(_)
Concat(lists) == IF lists = <<>> THEN <<>> ELSE Head(lists) \o Concat(Tail(lists))

\* What validateSectionMargins returns on the sections the host delivers.
\* A section whose exchange with the host fails, or whose topMargin is
\* undefined, is skipped; the top margin of a section that begins with a
\* main heading is 7 cm, every other margin 3 cm
validateSectionMargins(sections) ==
    LET tolerance == EBYU_RULES_x100.MARGIN_TOLERANCE
        expectedTopMargin(section) ==
            IF isMainHeadingText(Trim(section.firstParaText))
            THEN EBYU_RULES_x100.MARGIN_TOP_SPECIAL_POINTS
            ELSE EBYU_RULES_x100.MARGIN_POINTS
        errorsOf(section) ==
            IF section.fails \/ section.topMargin = Undefined THEN <<>>
            ELSE Found(AbsDiffExceeds(section.topMargin, expectedTopMargin(section), tolerance),
                       "error", "Ust Kenar Boslugu")
                 \o Found(AbsDiffExceeds(section.bottomMargin, EBYU_RULES_x100.MARGIN_POINTS,
                                         tolerance),
                          "error", "Alt Kenar Boslugu")
                 \o Found(AbsDiffExceeds(section.leftMargin, EBYU_RULES_x100.MARGIN_POINTS,
                                         tolerance),
                          "error", "Sol Kenar Boslugu")
                 \o Found(AbsDiffExceeds(section.rightMargin, EBYU_RULES_x100.MARGIN_POINTS,
                                         tolerance),
                          "error", "Sag Kenar Boslugu")
    IN  Concat([k \in DOMAIN sections |-> errorsOf(sections[k])])

\* What validateTables returns on the tables the host delivers.  The loop
\* ends where the host fails to load a table or rejects the highlight of a
\* table out of line: catch keeps the errors pushed until then
validateTables(tables) ==
    LET misaligned(table) ==
            /\ Truthy(table.alignment) /\ ~isCentered(table.alignment)
            /\ table.alignment \notin {Str(<<77, 105, 120, 101, 100>> (* "Mixed" *)),
                                       Str(<<85, 110, 107, 110, 111, 119, 110>> (* "Unknown" *))}
        ends(table) == table.fails \/ (misaligned(table) /\ table.rejectsHighlight)
        last == IF \E k \in DOMAIN tables : ends(tables[k])
                THEN CHOOSE k \in DOMAIN tables :
                        ends(tables[k]) /\ \A j \in 1..(k - 1) : ~ends(tables[j])
                ELSE Len(tables)
        errorsOf(table) ==
            IF table.fails THEN <<>>
            ELSE Found(misaligned(table), "warning", "Tablo: Hizalama Hatasi")
                 \o Found(/\ ~ends(table)
                          /\ WrongFontSize(table.size, EBYU_RULES_x100.TABLE_CONTENT_SIZE),
                          "warning", "Tablo: Punto Hatasi")
    IN  Concat([k \in 1..last |-> errorsOf(tables[k])])

\* What validateImages returns on the inline pictures the host delivers
validateImages(pictures) ==
    LET misaligned(pic) == Truthy(pic.alignment) /\ ~isCentered(pic.alignment)
        ends(pic) == pic.fails \/ (misaligned(pic) /\ pic.rejectsHighlight)
        last == IF \E k \in DOMAIN pictures : ends(pictures[k])
                THEN CHOOSE k \in DOMAIN pictures :
                        ends(pictures[k]) /\ \A j \in 1..(k - 1) : ~ends(pictures[j])
                ELSE Len(pictures)
        errorsOf(pic) ==
            Found(~pic.fails /\ misaligned(pic), "warning", "Resim: Hizalama Hatasi")
    IN  Concat([k \in 1..last |-> errorsOf(pictures[k])])

\* What validatePageNumbers returns on the footers the host delivers, one
\* for each section.  The exchange for the footer distance or the one for
\* the text of the footer can fail: the rest of the section is skipped
validatePageNumbers(footers) ==
    LET errorsOf(footer) ==
            IF footer.fails = "distance" THEN <<>>
            ELSE Found(AbsDiffExceeds(footer.footerDistance,
                                      EBYU_RULES_x100.PAGE_NUMBER_FOOTER_DISTANCE_POINTS,
                                      EBYU_RULES_x100.MARGIN_TOLERANCE),
                       "warning", "Sayfa No Konumu")
                 \o Found(/\ footer.fails # "footer"
                          /\ Truthy(footer.text) /\ Trim(footer.text.s) = <<>>,
                          "warning", "Sayfa Numarasi Eksik")
    IN  Concat([k \in DOMAIN footers |-> errorsOf(footers[k])])

\* What the host delivers for a document besides its paragraphs: the lists
\* of its sections, tables and inline pictures, and the footer of a section.
\* Lengths are in points; the first section begins with the first paragraph,
\* a second section with the second.  The empty document and the document of
\* one heading are scanned with each of the answers, every other document
\* with the answers that give no finding or one
Host(doc) ==
    LET every == doc \in {<<>>, <<Plain(tGIRIS)>>}
        left == Str(<<76, 101, 102, 116>>) (* "Left" *)
        centered == Str(<<67, 101, 110, 116, 101, 114, 101, 100>>) (* "Centered" *)
        mixed == Str(<<77, 105, 120, 101, 100>>) (* "Mixed" *)
        first == IF doc = <<>> THEN <<>> ELSE doc[1].data.text
        second == IF Len(doc) < 2 THEN <<>> ELSE doc[2].data.text
        section(top, bottom, side, right, text, fails) ==
            [topMargin |-> top, bottomMargin |-> Num(bottom), leftMargin |-> Num(side),
             rightMargin |-> Num(right), firstParaText |-> text, fails |-> fails]
        table(alignment, size, fails, rejects) ==
            [alignment |-> alignment, size |-> size, fails |-> fails,
             rejectsHighlight |-> rejects]
        picture(alignment, fails, rejects) ==
            [alignment |-> alignment, fails |-> fails, rejectsHighlight |-> rejects]
        footer(distance, text, fails) ==
            [footerDistance |-> distance, text |-> Str(text), fails |-> fails]
    IN  [sections |->
            {<<section(Num(top), 85, 85, 85, first, FALSE)>> : top \in {85, 198}}
            \cup (IF every
                  THEN {<<section(Num(85), 125, 85, 85, first, FALSE)>>,
                        <<section(Num(85), 85, 125, 85, first, FALSE)>>,
                        <<section(Num(85), 85, 85, 125, first, FALSE)>>,
                        <<section(Num(125), 125, 125, 125, first, FALSE)>>,
                        <<section(Num(125), 125, 125, 125, first, TRUE)>>,
                        <<section(Undefined, 125, 125, 125, first, FALSE)>>,
                        <<section(Null, 85, 85, 85, first, FALSE)>>}
                  ELSE {})
            \cup (IF doc = <<Plain(tGIRIS), Plain(tEntry)>>
                  THEN {<<section(Num(top), 85, 85, 85, first, FALSE),
                          section(Num(next), 85, 85, 85, second, FALSE)>> :
                           top \in {85, 198}, next \in {85, 198}}
                  ELSE {}),
         tables |->
            {<<>>, <<table(left, Num(11), FALSE, FALSE)>>}
            \cup (IF every
                  THEN {<<table(centered, Num(14), FALSE, FALSE)>>,
                        <<table(left, Num(14), FALSE, FALSE)>>,
                        <<table(left, Num(14), FALSE, TRUE)>>,
                        <<table(mixed, Null, FALSE, FALSE)>>,
                        <<table(Undefined, Num(14), TRUE, FALSE)>>,
                        <<table(left, Num(11), FALSE, FALSE), table(left, Num(11), FALSE, FALSE)>>,
                        <<table(left, Num(11), FALSE, TRUE), table(left, Num(11), FALSE, FALSE)>>}
                  ELSE {}),
         pictures |->
            {<<>>, <<picture(left, FALSE, FALSE)>>}
            \cup (IF every
                  THEN {<<picture(centered, FALSE, FALSE)>>,
                        <<picture(Undefined, FALSE, FALSE)>>,
                        <<picture(left, TRUE, FALSE)>>,
                        <<picture(left, FALSE, FALSE), picture(left, FALSE, FALSE)>>,
                        <<picture(left, FALSE, TRUE), picture(left, FALSE, FALSE)>>}
                  ELSE {}),
         footer |->
            {footer(Num(35), <<49>>, "none"), footer(Num(71), <<49>>, "none")}
            \cup (IF every
                  THEN {footer(Num(35), <<32>>, "none"), footer(Num(71), <<32>>, "none"),
                        footer(Num(35), <<>>, "none"), footer(Undefined, <<32>>, "none"),
                        footer(Null, <<49>>, "none"), footer(Num(71), <<32>>, "distance"),
                        footer(Num(71), <<32>>, "footer")}
                  ELSE {})]

\* scanDocument is called and no scan is running: clearResults
StartScanKeepsResults ==
    /\ ~isScanning
    /\ pc = "idle"
    /\ scans < MaxScans
    /\ scans' = scans + 1
    /\ isScanning' = TRUE
    /\ lastCall' = "started"
    /\ pc' = "clear"
    /\ UNCHANGED <<validationResults, zoneSwitches, paragraphDataList, i, currentZone,
                   isInBiblio, ghostCount, errorCount, warningCount, paraData, paraType, highlightColor>>
    /\ UNCHANGED <<marginErrors, tableErrors, imageErrors, pageNumErrors, sectionCount>>
    /\ UNCHANGED callVars

StartScan ==
    /\ ~isScanning
    /\ pc = "idle"
    /\ scans < MaxScans
    /\ scans' = scans + 1
    /\ isScanning' = TRUE
    /\ lastCall' = "started"
    /\ validationResults' = <<>>
    /\ zoneSwitches' = 0
    /\ pc' = "clear"
    /\ UNCHANGED <<paragraphDataList, i, currentZone, isInBiblio, ghostCount,
                   errorCount, warningCount, paraData, paraType, highlightColor>>
    /\ UNCHANGED <<marginErrors, tableErrors, imageErrors, pageNumErrors, sectionCount>>
    /\ UNCHANGED callVars

\* Steps 1 to 4: the host delivers the paragraphs, the margins are checked;
\* step 5 starts in Cover
LoadParagraphs ==
    /\ pc = "clear"
    /\ \E doc \in Documents :
          /\ paragraphDataList' = doc
          \* the host delivers the sections; the exchange of validateSectionMargins
          \* for their page setups succeeds or fails
          /\ \E sections \in Host(doc).sections, failed \in BOOLEAN :
                /\ sectionCount' = Len(sections)
                /\ marginErrors' = IF failed THEN <<>> ELSE validateSectionMargins(sections)
                \* the warning of the failed check, recorded by validateSectionMargins
                \* itself, or the errors it returned
                /\ validationResults' =
                      IF failed
                      THEN addResult(validationResults, "warning",
                                     "Kenar Bosluklari (Manuel Kontrol)", Null, "")
                      ELSE addResults(validationResults, validateSectionMargins(sections))
    /\ i' = 0
    /\ currentZone' = ZONES.COVER
    /\ isInBiblio' = FALSE
    /\ ghostCount' = 0
    /\ errorCount' = 0
    /\ warningCount' = 0
    /\ pc' = "loop"
    /\ UNCHANGED <<scans, isScanning, lastCall, zoneSwitches, paraData, paraType,
                   highlightColor, tableErrors, imageErrors, pageNumErrors>>
    /\ UNCHANGED callVars

\* The call of scanDocument is over: its local variables are gone
LocalsDiscarded ==
    /\ paragraphDataList' = <<>>
    /\ i' = 0
    /\ currentZone' = ZONES.COVER
    /\ isInBiblio' = FALSE
    /\ ghostCount' = 0
    /\ errorCount' = 0
    /\ warningCount' = 0
    /\ paraData' = NoPara
    /\ paraType' = "none"
    /\ highlightColor' = "none"
    /\ marginErrors' = <<>>
    /\ tableErrors' = <<>>
    /\ imageErrors' = <<>>
    /\ pageNumErrors' = <<>>
    /\ sectionCount' = 0

\* One iteration of the loop of step 5 on paragraph i.  The write of
\* font.highlightColor is the one exchange with the host in the iteration:
\* if the host rejects it, the exception leaves the loop for the catch
\* branch of scanDocument, which records the failure, and finally ends the
\* scan.  A ghost heading is highlighted before its error is recorded, every
\* other paragraph after its errors are recorded and counted.  A validator
\* that throws leaves the loop the same way, with none of its errors recorded.
\* The rest of the loop body, given the paragraph's zone, type and errors
ProcessParagraph(item, z, type, errors) ==
    LET ghost == type = PARA_TYPES.GHOST_HEADING
        thrown == \/ errors = TypeError
                  \/ item.paragraph.rejectsHighlight /\ (ghost \/ errors # <<>>)
        recorded == IF errors = TypeError \/ (item.paragraph.rejectsHighlight /\ ghost)
                    THEN validationResults
                    ELSE addResults(validationResults, errors)
    IN  /\ zoneSwitches' = zoneSwitches + z.switches
        /\ IF thrown
           THEN /\ validationResults' = addResult(recorded, "error", "Tarama Hatasi", Null, "")
                /\ isScanning' = FALSE
                /\ pc' = "idle"
                /\ LocalsDiscarded
           ELSE /\ validationResults' = recorded
                /\ paraData' = item.data
                /\ currentZone' = z.zone
                /\ isInBiblio' = z.biblio
                /\ paraType' = type
                /\ highlightColor' = IF errors # <<>> THEN highlightOf(errors)
                                     ELSE "none"
                /\ ghostCount' = IF ghost THEN ghostCount + 1 ELSE ghostCount
                /\ errorCount' = errorCount + CountType(errors, "error")
                /\ warningCount' = warningCount + CountType(errors, "warning")
                /\ i' = i + 1
                /\ UNCHANGED <<isScanning, pc, paragraphDataList>>
                /\ UNCHANGED <<marginErrors, tableErrors, imageErrors, pageNumErrors, sectionCount>>

\* Step 3 onwards: the type of the paragraph in its zone, and its rule check
ValidateParagraph(item, z, type) ==
    ProcessParagraph(item, z, type, validate(type, ParaData(item), i))

ClassifyParagraph(item, z) ==
    ValidateParagraph(item, z, detectParagraphType(item.data, z.zone, z.biblio))

\* Step 2: the zone the paragraph lies in
SwitchZone(item) ==
    ClassifyParagraph(item, ZoneSwitch(currentZone, isInBiblio, Trim(item.data.text), i))

ScanParagraph ==
    /\ pc = "loop"
    /\ i < Len(paragraphDataList)
    /\ SwitchZone(ParagraphAt(paragraphDataList, i))
    /\ UNCHANGED <<scans, lastCall>>
    /\ UNCHANGED callVars

\* text.split(/\s+/).filter(w => w.length > 0).length
RECURSIVE countWords(_)
countWords(text) ==
    IF text = <<>> THEN 0
    ELSE IF Head(text) \in WhiteSpace THEN countWords(Tail(text))
    ELSE (IF Len(text) = 1 \/ text[2] \in WhiteSpace THEN 1 ELSE 0) + countWords(Tail(text))

\* /^(ÖZET|ABSTRACT|Anahtar Kelimeler|Keywords)/i
abstractMarker ==
    RegExp(TRUE, Alt(<<Lit(<<214, 90, 69, 84>> (* "ÖZET" *)), Lit(<<65, 66, 83, 84, 82, 65, 67, 84>> (* "ABSTRACT" *)), Lit(<<65, 110, 97, 104, 116, 97, 114, 32, 75, 101, 108, 105, 109, 101, 108, 101, 114>> (* "Anahtar Kelimeler" *)), Lit(<<75, 101, 121, 119, 111, 114, 100, 115>> (* "Keywords" *))>>), FALSE, TRUE)

\* Total of the words of the paragraphs that do not begin with a marker
RECURSIVE totalWords(_)
totalWords(abstractParagraphs) ==
    IF abstractParagraphs = <<>> THEN 0
    ELSE LET text == Trim(Head(abstractParagraphs).data.text)
         IN  (IF Len(text) > 0 /\ ~Test(abstractMarker, text) THEN countWords(text) ELSE 0)
             + totalWords(Tail(abstractParagraphs))

\* Word count check: 200-250 words
wordCountErrors(words) ==
    IF words < EBYU_RULES.ABSTRACT_MIN_WORDS
    THEN <<[type |-> "warning", title |-> "Ozet: Kelime Sayisi Az", severity |-> "FORMAT"]>>
    ELSE IF words > EBYU_RULES.ABSTRACT_MAX_WORDS
    THEN <<[type |-> "warning", title |-> "Ozet: Kelime Sayisi Fazla", severity |-> "FORMAT"]>>
    ELSE <<>>

validateAbstract(paraData_, abstractParagraphs) ==
    wordCountErrors(totalWords(abstractParagraphs))

\* The index of the last paragraph whose text begins with `heading`, or -1
startIndex(list, heading) ==
    LET found == {k \in DOMAIN list :
                     StartsWith(ToUpperCase(Trim(list[k].data.text)), heading)}
    IN  IF found = {} THEN 0 - 1 ELSE (CHOOSE k \in found : \A m \in found : m <= k) - 1

\* The paragraphs longer than 10 characters after the heading at `start`, up
\* to the first that begins with one of `ends` and at most 29 of them
RECURSIVE paragraphsFrom(_, _, _, _)
paragraphsFrom(list, idx, start, ends) ==
    IF ~(idx < Len(list) /\ idx < start + 30) THEN <<>>
    ELSE IF \E e \in ends : StartsWith(ToUpperCase(Trim(list[idx + 1].data.text)), e)
    THEN <<>>
    ELSE (IF Len(Trim(list[idx + 1].data.text)) > 10 THEN <<list[idx + 1]>> ELSE <<>>)
         \o paragraphsFrom(list, idx + 1, start, ends)

\* err.title.replace('Özet:', ...), and the finding of each error
retitled(errors, title) ==
    [k \in DOMAIN errors |->
        [type |-> errors[k].type,
         title |-> IF errors[k].title = "Ozet: Kelime Sayisi Az"
                   THEN title \o ": Kelime Sayisi Az"
                   ELSE title \o ": Kelime Sayisi Fazla",
         paraIndex |-> Null, severity |-> errors[k].severity]]

\* The errors of the page whose heading is at `start`
pageErrors(list, start, ends, title) ==
    IF start >= 0
    THEN retitled(validateAbstract(Null, paragraphsFrom(list, start + 1, start, ends)), title)
    ELSE <<>>

\* Step 8.5: the errors of the page of `heading`, retitled
abstractErrors(list, heading, ends, title) ==
    pageErrors(list, startIndex(list, heading), ends, title)

\* The errors a check of step 6, 7 or 8 returned are recorded and counted:
\* for (const err of errors) { addResult(...); errorCount++ or warningCount++ }
RecordRest(errors, ozetErrors, abstractErrors_) ==
    /\ validationResults' =
          addResults(addResults(addResults(validationResults, errors),
                                ozetErrors), abstractErrors_)
    /\ errorCount' = errorCount + CountType(errors, "error")
    /\ warningCount' = warningCount + (Len(errors) - CountType(errors, "error"))
                          + Len(ozetErrors) + Len(abstractErrors_)

\* The loop is over: validateTables is called and awaits the host
AwaitTables ==
    /\ pc = "loop"
    /\ i = Len(paragraphDataList)
    /\ pc' = "tables"
    /\ UNCHANGED <<scans, isScanning, lastCall, validationResults, zoneSwitches,
                   paragraphDataList, i, currentZone, isInBiblio, ghostCount, errorCount,
                   warningCount, paraData, paraType, highlightColor>>
    /\ UNCHANGED <<marginErrors, tableErrors, imageErrors, pageNumErrors, sectionCount>>
    /\ UNCHANGED callVars

\* Step 6: validateTables returns what it found on the tables of the host,
\* its errors are recorded and counted; validateImages is called and awaits
ValidateTables ==
    /\ pc = "tables"
    /\ \E tables \in Host(paragraphDataList).tables :
          /\ tableErrors' = validateTables(tables)
          /\ RecordRest(validateTables(tables), <<>>, <<>>)
    /\ pc' = "images"
    /\ UNCHANGED <<scans, isScanning, lastCall, zoneSwitches, paragraphDataList, i, currentZone,
                   isInBiblio, ghostCount, paraData, paraType, highlightColor,
                   marginErrors, imageErrors, pageNumErrors, sectionCount>>
    /\ UNCHANGED callVars

\* Step 7: validateImages returns what it found on the pictures of the host;
\* validatePageNumbers is called and awaits
ValidateImages ==
    /\ pc = "images"
    /\ \E pictures \in Host(paragraphDataList).pictures :
          /\ imageErrors' = validateImages(pictures)
          /\ RecordRest(validateImages(pictures), <<>>, <<>>)
    /\ pc' = "pageNumbers"
    /\ UNCHANGED <<scans, isScanning, lastCall, zoneSwitches, paragraphDataList, i, currentZone,
                   isInBiblio, ghostCount, paraData, paraType, highlightColor,
                   marginErrors, tableErrors, pageNumErrors, sectionCount>>
    /\ UNCHANGED callVars

\* Steps 8 and 8.5: validatePageNumbers returns what it found on the footer
\* of each section, then the word counts of the pages of ÖZET and ABSTRACT;
\* step 9 awaits the host
ValidatePageNumbers ==
    /\ pc = "pageNumbers"
    /\ \E footers \in [1..sectionCount -> Host(paragraphDataList).footer] :
          /\ pageNumErrors' = validatePageNumbers(footers)
          /\ RecordRest(
                validatePageNumbers(footers),
                abstractErrors(paragraphDataList, tOZET,
                               {<<65, 78, 65, 72, 84, 65, 82, 32, 75, 69, 76, 304, 77, 69, 76, 69, 82>> (* "ANAHTAR KELİMELER" *),
                                <<65, 78, 65, 72, 84, 65, 82, 32, 83, 214, 90, 67, 220, 75, 76, 69, 82>> (* "ANAHTAR SÖZCÜKLER" *)},
                               "OZET"),
                abstractErrors(paragraphDataList, tABSTRACT,
                               {<<75, 69, 89, 87, 79, 82, 68, 83>> (* "KEYWORDS" *),
                                <<75, 69, 89, 32, 87, 79, 82, 68, 83>> (* "KEY WORDS" *)},
                               "ABSTRACT"))
    /\ pc' = "highlight"
    /\ UNCHANGED <<scans, isScanning, lastCall, zoneSwitches, paragraphDataList, i, currentZone,
                   isInBiblio, ghostCount, paraData, paraType, highlightColor,
                   marginErrors, tableErrors, imageErrors, sectionCount>>
    /\ UNCHANGED callVars

\* Step 10: the ghost-heading total and the summary
summaryResults(results, ghosts, totalErrors, totalWarnings) ==
    LET r1 == IF ghosts > 0
              THEN addResult(results, "error", "Bos Baslik (Ghost Heading) Bulundu", Null, "CRITICAL")
              ELSE results
    IN  IF totalErrors = 0 /\ totalWarnings = 0
        THEN addResult(r1, "success", "Tebrikler!", Null, "")
        ELSE addResult(r1, IF totalErrors > 0 THEN "error" ELSE "warning",
                       "Tarama Ozeti", Null, "")

\* Steps 9 and 10 and finally: the last host exchange succeeds, the summary
\* is recorded, the scan is over
EndScan ==
    /\ pc = "highlight"
    /\ validationResults' =
          summaryResults(validationResults, ghostCount,
                         errorCount + CountType(marginErrors, "error"),
                         warningCount + CountType(marginErrors, "warning")
                            + Len(tableErrors) + Len(imageErrors) + Len(pageNumErrors))
    /\ isScanning' = FALSE
    /\ pc' = "idle"
    /\ LocalsDiscarded
    /\ UNCHANGED <<scans, lastCall, zoneSwitches>>
    /\ UNCHANGED callVars

\* A host exchange of scanDocument fails (context.sync of step 1, 2 or 9):
\* catch records the failure, finally ends the scan
ScanFails ==
    /\ pc \in {"clear", "highlight"}
    /\ validationResults' = addResult(validationResults, "error", "Tarama Hatasi", Null, "")
    /\ isScanning' = FALSE
    /\ pc' = "idle"
    /\ LocalsDiscarded
    /\ UNCHANGED <<scans, lastCall, zoneSwitches>>
    /\ UNCHANGED callVars

\* Where scanDocument awaits the host, so that another handler can run
Awaiting == {"clear", "tables", "images", "pageNumbers", "highlight"}

\* scanDocument is called while a scan is running and a restart makes it
\* begin anew: the findings are cleared, the running scan goes on
CallRestartsScan ==
    /\ isScanning
    /\ pc \in Awaiting
    /\ lastCall' = "ignored"
    /\ validationResults' = <<>>
    /\ zoneSwitches' = 0
    /\ UNCHANGED <<scans, isScanning, pc, paragraphDataList, i, currentZone, isInBiblio,
                   ghostCount, errorCount, warningCount, paraData, paraType,
                   highlightColor>>
    /\ UNCHANGED <<marginErrors, tableErrors, imageErrors, pageNumErrors, sectionCount>>
    /\ UNCHANGED callVars

\* scanDocument is called while a scan is running: if (isScanning) return.
\* The running scan takes no other call while it handles the paragraphs,
\* only where it awaits the host
CallWhileScanning ==
    /\ isScanning
    /\ pc \in Awaiting
    /\ lastCall' = "ignored"
    /\ UNCHANGED <<scans, isScanning, validationResults, zoneSwitches, pc, paragraphDataList,
                   i, currentZone, isInBiblio, ghostCount, errorCount, warningCount,
                   paraData, paraType, highlightColor>>
    /\ UNCHANGED <<marginErrors, tableErrors, imageErrors, pageNumErrors, sectionCount>>
    /\ UNCHANGED callVars

\* clearHighlightsAndResults is called, with no scan running or while one
\* awaits the host: clearResults empties the findings and the log; the scan,
\* if any, goes on with its local variables
ClearHighlightsAndResults ==
    /\ pc \in Awaiting \cup {"idle"}
    /\ validationResults' = <<>>
    /\ zoneSwitches' = 0
    /\ UNCHANGED <<scans, isScanning, lastCall, pc, paragraphDataList, i, currentZone,
                   isInBiblio, ghostCount, errorCount, warningCount, paraData, paraType,
                   highlightColor>>
    /\ UNCHANGED <<marginErrors, tableErrors, imageErrors, pageNumErrors, sectionCount>>
    /\ UNCHANGED callVars

Init == ScanIdle /\ NoCall

Next ==
    \/ StartScan \/ CallWhileScanning \/ ClearHighlightsAndResults \/ LoadParagraphs
    \/ ScanParagraph \/ AwaitTables \/ ValidateTables \/ ValidateImages
    \/ ValidatePageNumbers \/ EndScan \/ ScanFails

Spec == Init /\ [][Next]_vars

(***************************************************************************)
(* Properties of the classifier (SpecClassify)                             *)
(***************************************************************************)
\* A call of detectParagraphType has returned
Called == cType # "none"

cTrimmed == Trim(cPara.text)

\* Both revisions of the classifier gave the type t
Both(t) == cType = t /\ cType1 = t

\* C1. Totality: on every attribute snapshot, zone and bibliography flag,
\* detectParagraphType returns a value of the paragraph-type enumeration
\* (there is no path on which it throws, so every call returns)
C1_Totality == Called => cType \in ParaTypeSet /\ cType1 \in ParaTypeSet

\* An empty paragraph inside a table, all optional attributes undefined,
\* classified with the bibliography flag set
C1_Witness ==
    /\ Called /\ cPara.tableNestingLevel = 2 /\ cTrimmed = <<>>
    /\ cPara.outlineLevel = Undefined /\ cPara.leftIndent = Undefined
    /\ cBiblio /\ Both(PARA_TYPES.BODY_TEXT)

EmptyWithOutlineZero ==
    cPara.tableNestingLevel = 0 /\ cTrimmed = <<>> /\ cPara.outlineLevel = Num(0)

EmptyPlain ==
    /\ cTrimmed = <<>> /\ cPara.outlineLevel \in {Undefined, Null}
    /\ ~isHeadingStyle(cPara.style)

\* C3. Ghost-heading detection: outside any table, an empty paragraph with
\* outline level 0 is GHOST_HEADING, and an empty paragraph with no outline
\* level and no heading-named style is EMPTY
C3_GhostHeading ==
    Called =>
        /\ EmptyWithOutlineZero => Both(PARA_TYPES.GHOST_HEADING)
        /\ EmptyPlain /\ cPara.tableNestingLevel = 0 => Both(PARA_TYPES.EMPTY)

\* C3 as stated: the second half holds of every empty paragraph, inside a
\* table or not
C3_AsStated ==
    Called =>
        /\ EmptyWithOutlineZero => Both(PARA_TYPES.GHOST_HEADING)
        /\ EmptyPlain => Both(PARA_TYPES.EMPTY)

C3_Witness ==
    /\ Called /\ EmptyWithOutlineZero /\ cPara.style = <<>>
    /\ Both(PARA_TYPES.GHOST_HEADING)

MatchesCaption(t) == Test(PATTERNS.CAPTION_TABLE, t) \/ Test(PATTERNS.CAPTION_FIGURE, t)

\* Hierarchical numbering string, bold font, heading style or outline level 2-8
HasSubHeadingSignal(p) ==
    \/ p.isListItem /\ Test(SubListNumber, Trim(p.listString))
    \/ p.font.bold = Bool(TRUE)
    \/ isHeadingStyle(p.style)
    \/ p.outlineLevel.t = "number" /\ p.outlineLevel.n >= 2 /\ p.outlineLevel.n <= 8

\* C4. Priority precedence: a paragraph with caption text and sub-heading
\* signals is never SUB_HEADING, and it is CAPTION_TITLE unless the TOC rule
\* or the Cover zone takes it first
C4_CaptionPrecedes ==
    Called /\ MatchesCaption(cTrimmed) /\ HasSubHeadingSignal(cPara) =>
        /\ cType # PARA_TYPES.SUB_HEADING /\ cType1 # PARA_TYPES.SUB_HEADING
        /\ ~isTOCEntry(cPara.style, cTrimmed) /\ cZone # ZONES.COVER
             => Both(PARA_TYPES.CAPTION_TITLE)

\* C4 as stated: caption text with sub-heading signals is always CAPTION_TITLE
C4_AsStated ==
    Called /\ MatchesCaption(cTrimmed) /\ HasSubHeadingSignal(cPara) =>
        Both(PARA_TYPES.CAPTION_TITLE)

C4_Witness ==
    /\ Called /\ cPara.text = tCaption /\ cPara.style = sHeading2
    /\ cPara.outlineLevel = Num(2) /\ cPara.font.bold = Bool(TRUE)
    /\ cPara.listString = SubList.listString /\ cZone = ZONES.BODY
    /\ Both(PARA_TYPES.CAPTION_TITLE)

\* C5. Bibliography boundary: inside the bibliography, a paragraph outside
\* tables whose text is the bibliography heading (KAYNAKÇA, KAYNAKLAR,
\* REFERANSLAR, REFERENCES) and which the TOC rule does not take is
\* MAIN_HEADING
C5_BibliographyHeading ==
    /\ Called /\ cBiblio /\ cPara.tableNestingLevel = 0
    /\ matchesAnyPattern(cTrimmed, PATTERNS.BACK_MATTER_START)
    /\ ~isTOCEntry(cPara.style, cTrimmed)
    => Both(PARA_TYPES.MAIN_HEADING)

\* Multi-level numeric prefix and white space: /^\d+\.\d+(\.\d+)*\.?\s+/
NumericPrefix ==
    RegExp(TRUE, Cat(<<Plus(Digit), Lit(<<46>>), Plus(Digit),
                       Star(Cat(<<Lit(<<46>>), Plus(Digit)>>)), Opt(Lit(<<46>>)),
                       Plus(Space)>>), FALSE, FALSE)

HasMainHeadingSignal(p) ==
    \/ isMainHeadingText(Trim(p.text))
    \/ p.outlineLevel \in {Num(0), Num(1)}
    \/ isHeadingStyle(p.style) /\ isLevelOneStyle(p.style)
    \/ p.isListItem /\ Test(MainListNumber, Trim(p.listString))

\* A bold, non-empty paragraph under 150 characters, outside tables, the
\* Cover zone and the bibliography, with no main-heading signal
SubHeadingCandidate ==
    /\ Called /\ cTrimmed # <<>> /\ cPara.tableNestingLevel = 0
    /\ cZone # ZONES.COVER /\ ~cBiblio
    /\ cPara.font.bold = Bool(TRUE) /\ Len(cTrimmed) < 150
    /\ ~HasMainHeadingSignal(cPara)

\* C8. Sub-heading scenario: such a paragraph whose text begins with a
\* multi-level numeric prefix, white space and a letter, and which is not a
\* TOC entry, is SUB_HEADING
C8_SubHeading ==
    /\ SubHeadingCandidate /\ Test(PATTERNS.SUB_HEADING[1], cTrimmed)
    /\ ~isTOCEntry(cPara.style, cTrimmed)
    => Both(PARA_TYPES.SUB_HEADING)

\* C8 as stated: the numeric prefix alone decides
C8_AsStated ==
    SubHeadingCandidate /\ Test(NumericPrefix, cTrimmed) => Both(PARA_TYPES.SUB_HEADING)

C8_Witness ==
    /\ SubHeadingCandidate /\ cPara.text = tSub /\ cPara.style = <<>>
    /\ cPara.outlineLevel = Undefined /\ ~cPara.isListItem
    /\ Both(PARA_TYPES.SUB_HEADING)

\* No rule of priority 1 to 8 gave the type
FallsThrough(type) ==
    /\ cPara.tableNestingLevel = 0
    /\ type \in {PARA_TYPES.BLOCK_QUOTE, PARA_TYPES.BODY_TEXT, PARA_TYPES.UNKNOWN}

\* leftIndent is defined and at or above the threshold
IndentAtLeast(leftIndent, threshold) ==
    leftIndent.t = "number" /\ leftIndent.n >= threshold

\* C9. Block-quote rule: a paragraph no rule of priority 1 to 8 takes is
\* BLOCK_QUOTE if and only if its leftIndent is defined and at or above
\* BLOCK_QUOTE_MIN_INDENT, in each revision with its value of the constant
C9_BlockQuote ==
    Called =>
        /\ cType = PARA_TYPES.BLOCK_QUOTE <=>
              /\ FallsThrough(cType)
              /\ IndentAtLeast(cPara.leftIndent, EBYU_RULES.BLOCK_QUOTE_MIN_INDENT)
        /\ cType1 = PARA_TYPES.BLOCK_QUOTE <=>
              /\ FallsThrough(cType1)
              /\ IndentAtLeast(cPara.leftIndent, EBYU_RULES_part001.BLOCK_QUOTE_MIN_INDENT)

\* 80 characters of text, left indent 36pt
C9_Witness ==
    /\ Called /\ cPara.text = Filler(80) /\ cPara.leftIndent = Num(36)
    /\ Both(PARA_TYPES.BLOCK_QUOTE)

\* C10. Bibliography-entry rule: inside the bibliography a paragraph outside
\* tables, longer than 5 characters, not a TOC entry, cover item or caption
\* and not the bibliography heading is BIBLIOGRAPHY whatever its other
\* attributes; outside the bibliography nothing is BIBLIOGRAPHY
C10_BibliographyEntry ==
    Called =>
        /\ (/\ cBiblio /\ cPara.tableNestingLevel = 0 /\ Len(cTrimmed) > 5
            /\ ~isTOCEntry(cPara.style, cTrimmed) /\ ~isCoverItem(cTrimmed)
            /\ ~MatchesCaption(cTrimmed)
            /\ ~matchesAnyPattern(cTrimmed, PATTERNS.BACK_MATTER_START))
           => Both(PARA_TYPES.BIBLIOGRAPHY)
        /\ ~cBiblio => cType # PARA_TYPES.BIBLIOGRAPHY /\ cType1 # PARA_TYPES.BIBLIOGRAPHY

C10_Witness ==
    /\ Called /\ cBiblio /\ cZone = ZONES.BACK_MATTER /\ cPara.text = tEntry
    /\ cPara.style = sHeading1 /\ cPara.outlineLevel = Num(0)
    /\ cPara.listString = MainList.listString
    /\ Both(PARA_TYPES.BIBLIOGRAPHY)

(***************************************************************************)
(* Properties of the scan (Spec)                                           *)
(***************************************************************************)
\* The nominal order of the zones
ZoneRank(z) ==
    CASE z = ZONES.COVER -> 0
      [] z \in {ZONES.FRONT_MATTER, ZONES.TABLE_OF_CONTENTS} -> 1
      [] z \in {ZONES.ABSTRACT_TR, ZONES.ABSTRACT_EN} -> 2
      [] z = ZONES.BODY -> 3
      [] z = ZONES.BACK_MATTER -> 4

\* C2. Zone monotonicity: within a scan no loop iteration moves currentZone
\* to an earlier zone of the order Cover < FrontMatter < Abstract < Body <
\* BackMatter
C2_ZoneMonotone ==
    [][pc = "loop" /\ pc' = "loop" => ZoneRank(currentZone') >= ZoneRank(currentZone)]_vars

\* C7. Body-start scenario: a loop iteration on a paragraph whose trimmed text
\* matches BODY_START, begun in a zone before Body, ends in zone Body, and
\* the paragraph is MAIN_HEADING when it is outside tables and its style is
\* no TOC style
C7_BodyStart ==
    [][(/\ pc = "loop" /\ i' = i + 1
        /\ matchesAnyPattern(Trim(paraData'.text), PATTERNS.BODY_START)
        /\ ZoneRank(currentZone) < ZoneRank(ZONES.BODY))
       => /\ currentZone' = ZONES.BODY
          /\ (paraData'.tableNestingLevel = 0 /\ ~isTOCEntry(paraData'.style, <<>>))
                => paraType' = PARA_TYPES.MAIN_HEADING]_vars

\* GİRİŞ as the first paragraph of a document: Cover to Body
C7_Witness ==
    /\ pc = "loop" /\ i = 1 /\ paraData.text = tGIRIS
    /\ paraData.tableNestingLevel = 0 /\ paraData.style = <<>>
    /\ currentZone = ZONES.BODY /\ paraType = PARA_TYPES.MAIN_HEADING

\* The findings recorded for the paragraph at index idx
FindingsOf(idx) ==
    {k \in DOMAIN validationResults : validationResults[k].paraIndex = Num(idx)}

\* C11. Ghost-heading finding: a paragraph classified GHOST_HEADING has
\* exactly one finding, of type error and severity CRITICAL
C11_GhostFinding ==
    pc = "loop" /\ paraType = PARA_TYPES.GHOST_HEADING =>
        /\ Cardinality(FindingsOf(i - 1)) = 1
        /\ \A k \in FindingsOf(i - 1) :
              /\ validationResults[k].type = "error"
              /\ validationResults[k].severity = "CRITICAL"

\* Two ghost headings in a row, one finding each
C11_Witness ==
    /\ pc = "loop" /\ i = 2 /\ paraType = PARA_TYPES.GHOST_HEADING /\ ghostCount = 2
    /\ Cardinality(FindingsOf(0)) = 1 /\ Cardinality(FindingsOf(1)) = 1

\* The scan has ended in the catch branch
ScanFailed ==
    /\ pc = "idle" /\ validationResults # <<>>
    /\ validationResults[Len(validationResults)].title = "Tarama Hatasi"

\* C12. Host failure: after a failed scan the findings are the scan-failure
\* finding and nothing else
C12_FailureAlone == ScanFailed => Len(validationResults) = 1

\* The zone and the bibliography flag after the zone steps on paragraphs
\* 0..n-1 of the list, in order, starting from Cover
RECURSIVE ZoneAfter(_, _)
ZoneAfter(list, n) ==
    IF n = 0 THEN [zone |-> ZONES.COVER, biblio |-> FALSE]
    ELSE LET before == ZoneAfter(list, n - 1)
             after == ZoneSwitch(before.zone, before.biblio, Trim(list[n].data.text), n - 1)
         IN  [zone |-> after.zone, biblio |-> after.biblio]

InOrder ==
    /\ pc = "loop" /\ i > 0 =>
          LET z == ZoneAfter(paragraphDataList, i)
              p == paragraphDataList[i].data
          IN  /\ paraData = p
              /\ currentZone = z.zone /\ isInBiblio = z.biblio
              /\ paraType = detectParagraphType(p, z.zone, z.biblio)
    /\ pc = "highlight" => i = Len(paragraphDataList)

\* C13. Ordering: the paragraphs are handled in document order, each once,
\* and paragraph i is classified with the zone and bibliography flag that
\* the zone steps on paragraphs 0..i give
C13_Ordering ==
    /\ []InOrder
    /\ [][pc = "loop" /\ pc' = "loop" => i' = i + 1 /\ i' <= Len(paragraphDataList)]_vars

\* An entry classified by the effect of the heading two paragraphs before it
C13_Witness ==
    /\ pc = "loop" /\ i = 3 /\ paragraphDataList[1].data.text = tKAYNAKCA
    /\ paraData.text = tEntry /\ currentZone = ZONES.BACK_MATTER
    /\ paraType = PARA_TYPES.BIBLIOGRAPHY

\* C14. Fresh state per scan: when a scan starts the findings are empty, and
\* its loop starts in Cover, outside the bibliography, with no finding of a
\* paragraph; at any point every finding of a paragraph is of a paragraph this
\* scan has handled
C14_FreshState ==
    /\ pc = "clear" => validationResults = <<>>
    /\ pc = "loop" /\ i = 0 =>
          /\ currentZone = ZONES.COVER /\ ~isInBiblio
          /\ \A k \in DOMAIN validationResults : validationResults[k].paraIndex = Null
    /\ pc = "loop" =>
          \A k \in DOMAIN validationResults :
              validationResults[k].paraIndex # Null => validationResults[k].paraIndex.n < i

\* The second scan starts
C14_Witness ==
    scans = 2 /\ pc = "loop" /\ i = 0 /\ Len(paragraphDataList) = 3 /\ validationResults = <<>>

\* A loop iteration on a paragraph has been made
LoopStep == pc = "loop" /\ pc' = "loop"

\* C15. At most one zone transition fires per paragraph, unless the paragraph
\* is met in Cover at index 15 or later, where the end of the cover fires
\* besides the transition of the text; never more than two fire
C15_OneTransition ==
    [][LoopStep =>
         /\ zoneSwitches' - zoneSwitches <= 2
         /\ ~(currentZone = ZONES.COVER /\ i >= CoverParagraphs)
               => zoneSwitches' - zoneSwitches <= 1]_vars

\* C15 as stated: at most one transition fires for any paragraph
C15_AsStated == [][LoopStep => zoneSwitches' - zoneSwitches <= 1]_vars

\* ÖZET as the first paragraph: Cover to FrontMatter, one transition
C15_Witness ==
    /\ pc = "loop" /\ i = 1 /\ paraData.text = tOZET
    /\ currentZone = ZONES.FRONT_MATTER /\ zoneSwitches = 1

\* /^ÖZET$/i
IsNativeAbstractMarker(text) == Test(PATTERNS.FRONT_MATTER_IDENTIFIERS[9], text)

\* C16. Native-abstract transition: ÖZET met in Cover or FrontMatter moves
\* the zone to ABSTRACT_TR, and met in any other zone it does not
C16_NativeAbstract ==
    [][LoopStep /\ IsNativeAbstractMarker(Trim(paraData'.text)) =>
         IF currentZone \in {ZONES.COVER, ZONES.FRONT_MATTER}
         THEN currentZone' = ZONES.ABSTRACT_TR
         ELSE currentZone' # ZONES.ABSTRACT_TR]_vars

\* The zone a later zone step of the iteration finds: the end of the cover
\* by the paragraph count comes first
ZoneAtStep == IF currentZone = ZONES.COVER /\ i >= CoverParagraphs
              THEN ZONES.FRONT_MATTER ELSE currentZone

\* C17. Back-matter guard: a bibliography heading moves the zone to
\* BACK_MATTER and sets the flag when the zone is Body or FrontMatter, and
\* changes neither in any other zone
C17_BackMatterGuard ==
    [][LoopStep /\ matchesAnyPattern(Trim(paraData'.text), PATTERNS.BACK_MATTER_START) =>
         IF ZoneAtStep \in {ZONES.BODY, ZONES.FRONT_MATTER}
         THEN currentZone' = ZONES.BACK_MATTER /\ isInBiblio'
         ELSE currentZone' = currentZone /\ isInBiblio' = isInBiblio]_vars

\* C18. Body-start guard and reset: a body-start paragraph sets the zone to
\* Body and clears the flag when the zone is neither Body nor BackMatter,
\* and changes neither otherwise
C18_BodyStartGuard ==
    [][LoopStep /\ matchesAnyPattern(Trim(paraData'.text), PATTERNS.BODY_START) =>
         IF currentZone \notin {ZONES.BODY, ZONES.BACK_MATTER}
         THEN currentZone' = ZONES.BODY /\ ~isInBiblio'
         ELSE currentZone' = currentZone /\ isInBiblio' = isInBiblio]_vars

\* PATTERNS.APPENDIX_START of unnamed/part_000: /^EKLER?$/i, /^EK\s*\d/i,
\* /^APPENDIX/i
APPENDIX_START ==
    <<RegExp(TRUE, Cat(<<Lit(<<69, 75, 76, 69>>), Opt(Lit(<<82>>))>>), TRUE, TRUE),
      RegExp(TRUE, Cat(<<Lit(<<69, 75>>), Star(Space), Digit>>), FALSE, TRUE),
      RegExp(TRUE, Lit(<<65, 80, 80, 69, 78, 68, 73, 88>>), FALSE, TRUE)>>

\* C19. Appendix clears the bibliography flag: after a paragraph matching an
\* appendix-start pattern the flag is off and the zone is unchanged
C19_AppendixClearsFlag ==
    [][LoopStep /\ matchesAnyPattern(Trim(paraData'.text), APPENDIX_START) =>
         ~isInBiblio' /\ currentZone' = currentZone]_vars

\* C20. Table membership overrides everything: a paragraph inside a table is
\* CAPTION_TITLE when its text matches a caption pattern and BODY_TEXT
\* otherwise, whatever the zone, flag, text, outline level and style
C20_TableContent ==
    Called /\ cPara.tableNestingLevel > 0 =>
        Both(IF MatchesCaption(cTrimmed) THEN PARA_TYPES.CAPTION_TITLE
             ELSE PARA_TYPES.BODY_TEXT)

\* An empty paragraph with outline level 0 and a heading style inside a
\* table, in the bibliography
C20_Witness ==
    /\ Called /\ cPara.tableNestingLevel = 1 /\ cTrimmed = <<>>
    /\ cPara.outlineLevel = Num(0) /\ cPara.style = sHeading1 /\ cBiblio
    /\ Both(PARA_TYPES.BODY_TEXT)

\* The text matches a cover-identifier pattern
MatchesCoverIdentifier(t) == \E k \in DOMAIN PATTERNS.COVER_IDENTIFIERS :
                                Test(PATTERNS.COVER_IDENTIFIERS[k], t)

\* C21. Cover rule: a non-table, non-empty, non-TOC paragraph is COVER_TEXT
\* whenever the zone is Cover, and in any zone whenever its text matches a
\* cover-identifier pattern, ahead of the caption, bibliography and heading
\* rules
C21_CoverRule ==
    /\ Called /\ cPara.tableNestingLevel = 0 /\ cTrimmed # <<>>
    /\ ~isTOCEntry(cPara.style, cTrimmed)
    /\ (cZone = ZONES.COVER \/ MatchesCoverIdentifier(cTrimmed))
    => Both(PARA_TYPES.COVER_TEXT)

\* 'DANIŞMAN: Dr. A' with a level-one heading style and outline level 0,
\* met inside the bibliography
C21_Witness ==
    /\ Called /\ cBiblio /\ cZone = ZONES.BACK_MATTER /\ cPara.text = tDanisman
    /\ cPara.style = sHeading1 /\ cPara.outlineLevel = Num(0)
    /\ cPara.tableNestingLevel = 0
    /\ Both(PARA_TYPES.COVER_TEXT)

\* A non-empty paragraph outside tables that is not bold, has no
\* heading-named style, matches no heading text pattern and carries no
\* numbering
NoHeadingEvidence ==
    /\ Called /\ cPara.tableNestingLevel = 0 /\ cTrimmed # <<>>
    /\ cPara.font.bold # Bool(TRUE) /\ ~isHeadingStyle(cPara.style)
    /\ ~isMainHeadingText(cTrimmed)
    /\ ~matchesAnyPattern(cTrimmed, PATTERNS.SUB_HEADING)
    /\ ~Test(subHeadingTextPattern, cTrimmed)
    /\ ~cPara.isListItem

\* C22. Outline level alone is not sufficient heading evidence: such a
\* paragraph with outline level 0 or 1 is never MAIN_HEADING, and with
\* outline level 2 to 8 never SUB_HEADING
C22_OutlineAlone ==
    NoHeadingEvidence =>
        /\ cPara.outlineLevel \in {Num(0), Num(1)} =>
              cType # PARA_TYPES.MAIN_HEADING /\ cType1 # PARA_TYPES.MAIN_HEADING
        /\ cPara.outlineLevel \in {Num(n) : n \in 2..8} =>
              cType # PARA_TYPES.SUB_HEADING /\ cType1 # PARA_TYPES.SUB_HEADING

\* C23. One threshold for classifier and rule check: a paragraph that falls
\* through to priority 10 is BODY_TEXT exactly when its trimmed length is at
\* or above MIN_BODY_TEXT_LENGTH, so validateBodyText skips no paragraph that
\* priority 10 classified BODY_TEXT (in Arial it reports the font)
C23_OneThreshold ==
    Called /\ FallsThrough(cType) /\ cType # PARA_TYPES.BLOCK_QUOTE =>
        /\ cType = PARA_TYPES.BODY_TEXT <=>
              Len(cTrimmed) >= EBYU_RULES.MIN_BODY_TEXT_LENGTH
        /\ cType = PARA_TYPES.BODY_TEXT =>
              validateBodyText(ParaData(Item(cPara, FormatWrong, FALSE)), 0) # <<>>

\* The types the switch of the loop has no case for
UncheckedTypes == {PARA_TYPES.TOC_ENTRY, PARA_TYPES.EMPTY, PARA_TYPES.UNKNOWN}

\* C24. Types with no rule check produce nothing: the paragraph handled
\* last, when classified TOC_ENTRY, EMPTY or UNKNOWN, has no finding and no
\* highlight, whatever its formatting
C24_NoRuleCheck ==
    pc = "loop" /\ i > 0 /\ paraType \in UncheckedTypes =>
        FindingsOf(i - 1) = {} /\ highlightColor = "none"

\* A TOC entry in Arial 10 pt, left aligned
C24_Witness ==
    /\ pc = "loop" /\ i = 1 /\ paraType = PARA_TYPES.TOC_ENTRY
    /\ paragraphDataList[1].format = FormatWrong
    /\ paraData.text = tEntry
    /\ FindingsOf(0) = {} /\ highlightColor = "none"

\* C25. Per-paragraph failures are local: whatever happens in the iteration
\* on paragraph i, the loop goes on to paragraph i + 1, the scan is not
\* ended and no scan-failure finding is recorded
C25_LocalFailures ==
    [][pc = "loop" /\ i < Len(paragraphDataList) =>
         /\ pc' = "loop" /\ isScanning' /\ i' = i + 1
         /\ \A k \in DOMAIN validationResults' :
               validationResults'[k].title # "Tarama Hatasi"]_vars

\* The findings that are about the text, the outline level or the numbering
\* of a paragraph, not about a formatting attribute
TextFindings ==
    {"BOS BASLIK (Ghost Heading) - KRITIK!",
     "Ana Baslik: Numaralandirilmamis", "Ana Baslik: Numaralandirma Eksik",
     "Ana Baslik: Numaralandirma Formati",
     "Alt Baslik: Numaralandirilmamis", "Alt Baslik: Numaralandirma Eksik",
     "Alt Baslik: Numaralandirma Formati",
     "UYARI: Manuel Tab Kullanmayin", "UYARI: Manuel Bosluk Kullanmayin"}

\* The host gave no value for any formatting attribute of the paragraph
\* handled last
AttributesUndefined ==
    /\ pc = "loop" /\ i > 0
    /\ paragraphDataList[i].format = FormatUndefined
    /\ paraData.font.bold = Undefined /\ paraData.leftIndent = Undefined

\* C26. Missing attributes never fabricate a finding: a paragraph whose font,
\* alignment, indents and spacing are all undefined has no finding about a
\* formatting attribute
C26_MissingAttributes ==
    AttributesUndefined =>
        \A k \in FindingsOf(i - 1) : validationResults[k].title \in TextFindings

\* C27. Bibliography flag implies back matter: whenever the bibliography
\* flag of the scan is set, the zone is BACK_MATTER
C27_FlagImpliesBackMatter ==
    pc = "loop" /\ isInBiblio => currentZone = ZONES.BACK_MATTER

\* A call of scanDocument has just been ignored
CallIgnored == lastCall' = "ignored" /\ lastCall # "ignored"

\* C28. Scan re-entrancy guard: a call of scanDocument made while a scan is
\* running changes neither the findings nor the zone state nor anything else
\* of the running scan; isScanning is true exactly while a scan is running,
\* so that it is false again after every scan, ended by success or failure,
\* and the next scan can start
C28_ReentrancyGuard ==
    /\ [][CallIgnored =>
            UNCHANGED <<scans, isScanning, validationResults, zoneSwitches, pc,
                        paragraphDataList, i, currentZone, isInBiblio, ghostCount,
                        errorCount, warningCount, paraData, paraType, highlightColor,
                        marginErrors, tableErrors, imageErrors, pageNumErrors,
                        sectionCount>>]_vars
    /\ [](isScanning <=> pc # "idle")
    /\ [](pc = "idle" /\ scans < MaxScans => ENABLED StartScan)

\* A call was ignored before the highlights of a scan with findings; the scan
\* is still running
C28_Witness ==
    /\ lastCall = "ignored" /\ isScanning /\ pc = "highlight"
    /\ Len(paragraphDataList) = 2 /\ Len(validationResults) >= 2

\* C29. Cover zone is bounded: a paragraph at index 15 or higher is never
\* classified with the zone Cover, so that it is COVER_TEXT only if its text
\* matches a cover-identifier pattern
C29_CoverBounded ==
    pc = "loop" /\ i > CoverParagraphs =>
        /\ currentZone # ZONES.COVER
        /\ paraType = PARA_TYPES.COVER_TEXT => MatchesCoverIdentifier(Trim(paraData.text))

\* Fifteen cover lines and an entry: the sixteenth paragraph ends the cover
\* by its index alone
C29_Witness ==
    /\ pc = "loop" /\ i = CoverParagraphs + 1 /\ paraData.text = tEntry
    /\ currentZone = ZONES.FRONT_MATTER /\ zoneSwitches = 1
    /\ paraType = PARA_TYPES.BODY_TEXT

\* The scan has completed: the last finding is a closing summary
ScanCompleted ==
    /\ pc = "idle" /\ validationResults # <<>>
    /\ validationResults[Len(validationResults)].title \in {"Tebrikler!", "Tarama Ozeti"}

\* The findings recorded before the closing summary
Recorded == 1..(Len(validationResults) - 1)

\* C30. Success summary is sound: a completed scan has exactly one closing
\* summary; it is the success finding only if no error or warning was
\* recorded, else it is 'Tarama Ozeti', of type error if an error was recorded
C30_SummarySound ==
    ScanCompleted =>
        LET summary == validationResults[Len(validationResults)]
        IN  /\ \A k \in Recorded :
                  validationResults[k].title \notin {"Tebrikler!", "Tarama Ozeti"}
            /\ summary.title = "Tebrikler!" =>
                  /\ summary.type = "success"
                  /\ \A k \in Recorded : validationResults[k].type \notin {"error", "warning"}
            /\ summary.title = "Tarama Ozeti" =>
                  /\ \E k \in Recorded : validationResults[k].type \in {"error", "warning"}
                  /\ summary.type \in {"error", "warning"}
                  /\ (\E k \in Recorded : validationResults[k].type = "error")
                        => summary.type = "error"

====
